---------------------------- MODULE Spec2Model ----------------------------
(***************************************************************************)
(* Hybrid retrieval and context assembly of the car-manual RAG service:    *)
(* Reciprocal Rank Fusion and hybrid search (hybrid_search.py), the        *)
(* deduplication and parent-context assembly of ParentChildRAG (rag.py),   *)
(* the persisted parent document store (storage/document.py), and the      *)
(* BM25 keyword index with ingestion and reset (hybrid_search.py,          *)
(* pipeline.py, routes.py).                                                *)
(*                                                                         *)
(* Each subsystem has its own specification over its own variables; the    *)
(* variables of the other subsystems stay at their initial values.         *)
(***************************************************************************)
EXTENDS Integers, Sequences, FiniteSets, TLC

VARIABLES
    \* ---- fusion / hybrid search (one call of each on drawn inputs)
    fpc,                 \* "input" | "fused" | "searched"
    vector_results,      \* hybrid_search: result of vector_db.similarity_search
    bm25_results,        \* hybrid_search: result of bm25_search, <<doc, score>> pairs
    hs_k,                \* hybrid_search parameter k
    include_images,      \* hybrid_search parameter include_images
    page_matched_images, \* image documents matched on the relevant pages
    doc_scores,          \* reciprocal_rank_fusion: the dict, in insertion order
    fused,               \* reciprocal_rank_fusion: the returned list
    combined,            \* hybrid_search: the returned list
    rrf_calls,           \* number of calls of reciprocal_rank_fusion made
    \* ---- deduplication (one call on a drawn candidate list)
    dpc,                 \* "input" | "done"
    dedup_docs,          \* _deduplicate_aggressively: the argument docs
    unique_docs,         \* _deduplicate_aggressively: the returned list
    \* ---- the parent document store
    store,               \* ParentDocumentStore.store: parent id -> Document
    file,                \* docstore.json: whether it exists and what it holds
    wpc,                 \* per thread: where it is in a Document Store call
    data,                \* per thread: the local "data" of _save
    pre_store,           \* the store as the call in progress found it (history)
    \* ---- the embedding store, the keyword index and the threads that use them
    vector_db,           \* the chunks of the Chroma collection, in insertion order
    rag_system,          \* app.state.rag_system is set (TRUE) or None (FALSE)
    bm25_index,          \* _bm25_index
    bm25_corpus,         \* _bm25_corpus
    bm25_doc_map,        \* _bm25_doc_map
    pkl,                 \* the file bm25_index.pkl
    rpc,                 \* where the caller of rebuild_bm25_index is
    r_documents,         \* rebuild_bm25_index: documents
    r_idx,               \* rebuild_bm25_index: idx of the loop
    spc,                 \* where the caller of bm25_search is
    s_query,             \* bm25_search: query
    s_k,                 \* bm25_search: k
    s_index,             \* bm25_search: the index object get_scores ran on
    s_scores,            \* bm25_search: scores
    s_results,           \* bm25_search: the returned list
    \* ---- context assembly (one call, one loop turn per step)
    cpc,                 \* "loop" | "done"
    child_docs,          \* _build_context_with_parents: the argument child_docs
    ctx_i,               \* the loop index i of enumerate(child_docs)
    seen_parents,        \* the set seen_parents
    context_parts,       \* the list context_parts
    \* ---- the reranker (one call of rerank_results on drawn inputs)
    kpc,                 \* "input" | "done"
    reranker,            \* _reranker
    rr_load,             \* whether CrossEncoder(_model_name) can be loaded
    rr_predict,          \* what reranker.predict(pairs) does: scores, or it throws
    rr_documents,        \* rerank_results: documents
    rr_top_k,            \* rerank_results: top_k
    reranked,            \* rerank_results: the returned list
    rr_raised,           \* rerank_results raised to its caller
    \* ---- one call of ParentChildRAG.query
    qpc,                 \* "start" | "searched" | "deduplicated" | "reranked" | "returned"
    q_k,                 \* query: k
    q_child_k,           \* query: child_k
    q_visual,            \* query: is_visual
    q_vector,            \* what vector_db.similarity_search does: documents, or it throws
    q_bm25,              \* the keyword index: loadable or not, and its hits
    q_images,            \* the images vector_db.get finds on the relevant pages
    q_reranker,          \* the reranker: the model get_reranker returns, what predict does
    q_child_docs,        \* query: child_docs
    q_candidates,        \* query: candidates
    q_reranked,          \* query: reranked
    q_response,          \* query: the returned dict
    q_raised,            \* query raised to its caller
    \* ---- parent chunking (one call on drawn pages)
    hpc,                 \* "input" | "split" | "done"
    ch_pages,            \* create_parent_chunks: pages, each the lines of its text
    ch_file_hash,        \* create_parent_chunks: file_hash
    sections,            \* _split_by_headers: the returned list
    parent_docs,         \* create_parent_chunks: the returned list
    \* ---- ingestion (calls of ingest_pdf, one after the other)
    ingest_calls,        \* number of calls of ingest_pdf made
    ingest_result,       \* ingest_pdf: what the last call was given and returned
    \* ---- the conversation store and the threads that call it
    conversations,       \* ConversationStore._conversations: conv_id -> conversation
    conv_lock,           \* ConversationStore._lock: "free" or the thread holding it
    cv_pc,               \* per thread: where it is in a ConversationStore call
    cv_call,             \* per thread: the call it is in and its arguments
    cv_result,           \* per thread: what its last call returned
    uuids,               \* number of uuid4 values drawn
    now,                 \* datetime.now(): a clock that ticks at every reading
    conv_added           \* per conversation: the messages added since it was created or cleared (history)

fusionVars == <<fpc, vector_results, bm25_results, hs_k, include_images,
                page_matched_images, doc_scores, fused, combined, rrf_calls>>

dedupVars == <<dpc, dedup_docs, unique_docs>>

ctxVars == <<cpc, child_docs, ctx_i, seen_parents, context_parts>>

storeVars == <<store, file, wpc, data, pre_store>>

indexVars == <<vector_db, rag_system, bm25_index, bm25_corpus, bm25_doc_map, pkl,
               rpc, r_documents, r_idx, spc, s_query, s_k, s_index, s_scores, s_results>>

rerankVars == <<kpc, reranker, rr_load, rr_predict, rr_documents, rr_top_k,
                reranked, rr_raised>>

queryVars == <<qpc, q_k, q_child_k, q_visual, q_vector, q_bm25, q_images, q_reranker,
               q_child_docs, q_candidates, q_reranked, q_response, q_raised>>

chunkVars == <<hpc, ch_pages, ch_file_hash, sections, parent_docs>>

ingestVars == <<ingest_calls, ingest_result>>

convVars == <<conversations, conv_lock, cv_pc, cv_call, cv_result, uuids, now, conv_added>>

vars == <<fusionVars, dedupVars, ctxVars, storeVars, indexVars, rerankVars, queryVars,
          chunkVars,
    ingestVars,
    convVars>>

\* What the actions of one subsystem leave alone.
notFusion == <<dedupVars, ctxVars, storeVars, indexVars, rerankVars, queryVars,
    chunkVars,
    ingestVars,
    convVars>>
notDedup == <<fusionVars, ctxVars, storeVars, indexVars, rerankVars, queryVars,
    chunkVars,
    ingestVars,
    convVars>>
notContext == <<fusionVars, dedupVars, storeVars, indexVars, rerankVars, queryVars,
    chunkVars,
    ingestVars,
    convVars>>
notStore == <<fusionVars, dedupVars, ctxVars, indexVars, rerankVars, queryVars,
    chunkVars,
    ingestVars,
    convVars>>
notIndex == <<fusionVars, dedupVars, ctxVars, wpc, data, pre_store, rerankVars, queryVars,
    chunkVars,
    ingestVars,
    convVars>>
notRerank == <<fusionVars, dedupVars, ctxVars, storeVars, indexVars, queryVars,
    chunkVars,
    ingestVars,
    convVars>>
notChunk == <<fusionVars, dedupVars, ctxVars, storeVars, indexVars, rerankVars,
             queryVars,
    ingestVars,
    convVars>>
notQuery == <<fusionVars, dedupVars, ctxVars, storeVars, indexVars, rerankVars,
    chunkVars,
    ingestVars,
    convVars>>

notIngest == <<fusionVars, dedupVars, ctxVars, storeVars, indexVars,
    rerankVars, queryVars, chunkVars,
    convVars>>

notConv == <<fusionVars, dedupVars, ctxVars, storeVars, indexVars,
    rerankVars, queryVars, chunkVars, ingestVars>>

\* The threads that call into the Document Store.
Writers == {"w1", "w2"}

\* No persisted file.
NoFile == [exists |-> FALSE, content |-> <<>>]

\* A dict: a function whose domain is the set of keys.
EmptyDict == <<>>

\* The result of no call of ingest_pdf.
NoIngest == [file_hash |-> <<>>, force |-> FALSE, status |-> "none"]

\* The ingestion variables while another subsystem is under study.
IngestIdle ==
    /\ ingest_calls = 0
    /\ ingest_result = NoIngest

\* The threads that call into the conversation store.
ConvThreads == {"c1", "c2"}

\* No call, and no result yet.
NoCall == [op |-> "none", conv_id |-> 0, role |-> "none"]

NoResult == [op |-> "none", returned |-> "none", conv_id |-> 0]

\* The conversation variables while another subsystem is under study.
ConvIdle ==
    /\ conversations = EmptyDict
    /\ conv_lock = "free"
    /\ cv_pc = [t \in ConvThreads |-> "off"]
    /\ cv_call = [t \in ConvThreads |-> NoCall]
    /\ cv_result = [t \in ConvThreads |-> NoResult]
    /\ uuids = 0
    /\ now = 0
    /\ conv_added = EmptyDict

\* The reranker variables while another subsystem is under study.
RerankIdle ==
    /\ kpc = "off"
    /\ reranker = "None"
    /\ rr_load = "ok"
    /\ rr_predict = [threw |-> FALSE, scores |-> <<>>]
    /\ rr_documents = <<>>
    /\ rr_top_k = 0
    /\ reranked = <<>>
    /\ rr_raised = FALSE

\* The chunking variables while another subsystem is under study.
ChunkIdle ==
    /\ hpc = "off"
    /\ ch_pages = <<>>
    /\ ch_file_hash = <<>>
    /\ sections = <<>>
    /\ parent_docs = <<>>

\* The query variables while another subsystem is under study.
QueryIdle ==
    /\ qpc = "off"
    /\ q_k = 0
    /\ q_child_k = 0
    /\ q_visual = FALSE
    /\ q_vector = [threw |-> FALSE, docs |-> <<>>]
    /\ q_bm25 = [loadable |-> FALSE, hits |-> <<>>]
    /\ q_images = <<>>
    /\ q_reranker = [model |-> "None", threw |-> FALSE, score |-> <<>>]
    /\ q_child_docs = <<>>
    /\ q_candidates = <<>>
    /\ q_reranked = <<>>
    /\ q_response = [answered |-> FALSE, sources |-> <<>>]
    /\ q_raised = FALSE

\* The context-assembly variables while another subsystem is under study.
CtxIdle ==
    /\ cpc = "off"
    /\ child_docs = <<>>
    /\ ctx_i = 0
    /\ seen_parents = {}
    /\ context_parts = <<>>

\* The document store while another subsystem is under study.
PersistIdle ==
    /\ file = NoFile
    /\ wpc = [t \in Writers |-> "off"]
    /\ data = [t \in Writers |-> EmptyDict]
    /\ pre_store = EmptyDict

StoreIdle ==
    /\ store = EmptyDict
    /\ PersistIdle

\* _bm25_index = None
NoIndex == [built |-> FALSE, corpus |-> <<>>]

\* No file bm25_index.pkl.
NoPickle == [exists |-> FALSE, index |-> NoIndex, corpus |-> <<>>, doc_map |-> EmptyDict]

\* The module globals of hybrid_search.py after import (lines 9-11) and no
\* caller inside rebuild_bm25_index or bm25_search.
IndexGlobalsFresh ==
    /\ bm25_index = NoIndex
    /\ bm25_corpus = <<>>
    /\ bm25_doc_map = EmptyDict
    /\ rpc = "idle"
    /\ r_documents = <<>>
    /\ r_idx = 0
    /\ spc = "idle"
    /\ s_query = <<>>
    /\ s_k = 0
    /\ s_index = NoIndex
    /\ s_scores = <<>>
    /\ s_results = <<>>

\* The index variables while another subsystem is under study.
IndexIdle ==
    /\ vector_db = <<>>
    /\ rag_system = FALSE
    /\ pkl = NoPickle
    /\ IndexGlobalsFresh

\* The fusion variables while another subsystem is under study.
FusionIdle ==
    /\ fpc = "off"
    /\ hs_k = 0
    /\ vector_results = <<>>
    /\ bm25_results = <<>>
    /\ include_images = FALSE
    /\ page_matched_images = <<>>
    /\ doc_scores = <<>>
    /\ fused = <<>>
    /\ combined = <<>>
    /\ rrf_calls = 0

\* The deduplication variables while another subsystem is under study.
DedupIdle ==
    /\ dpc = "off"
    /\ dedup_docs = <<>>
    /\ unique_docs = <<>>


(***************************************************************************)
(* Sequence helpers                                                        *)
(***************************************************************************)
Take(s, n) == SubSeq(s, 1, IF n < Len(s) THEN n ELSE Len(s))

Range(s) == {s[i] : i \in 1..Len(s)}

SeqsUpTo(S, n) == UNION {[1..m -> S] : m \in 0..n}

RECURSIVE SumOver(_, _)
SumOver(S, f) ==
    IF S = {} THEN 0
    ELSE LET x == CHOOSE y \in S : TRUE IN f[x] + SumOver(S \ {x}, f)

RECURSIVE ProdRange(_, _)
ProdRange(a, b) == IF a > b THEN 1 ELSE a * ProdRange(a + 1, b)

(***************************************************************************)
(* Bounds                                                                  *)
(***************************************************************************)
MaxList == 3       \* longest ranked list handed to fusion
MaxImages == 2     \* most page-matched images of one visual query
MaxCands == 3      \* longest candidate list handed to deduplication
MaxRanked == 3     \* longest ranked list handed to context assembly
MaxCorpus == 3     \* longest _bm25_corpus a rebuild is followed to

(***************************************************************************)
(* Documents.  A langchain Document is a page_content and a metadata dict. *)
(* A text is a sequence of one-character strings.                          *)
(***************************************************************************)
Child(chunk_id, parent_id, content) ==
    [page_content |-> content,
     metadata |-> [type |-> "child", chunk_id |-> chunk_id, parent_id |-> parent_id]]

Image(parent_id, content) ==
    [page_content |-> content,
     metadata |-> [type |-> "image", parent_id |-> parent_id]]

Parent(parent_id, file_hash, content) ==
    [page_content |-> content,
     metadata |-> [type |-> "parent", parent_id |-> parent_id, file_hash |-> file_hash]]

\* A chunk stored without a parent id (add_multimodal_documents).
Orphan(chunk_id, content) ==
    [page_content |-> content,
     metadata |-> [chunk_id |-> chunk_id]]

\* dict.get(key): None when the key is absent
None == "None"

MetaGet(doc, key) ==
    IF key \in DOMAIN doc.metadata THEN doc.metadata[key] ELSE None

\* The child chunks the two ranking signals return in the fusion specification.
FusionDocs ==
    { Child("h1_parent_0_child_0", "h1_parent_0", <<"a">>),
      Child("h1_parent_0_child_1", "h1_parent_0", <<"b">>),
      Child("h1_parent_1_child_0", "h1_parent_1", <<"c">>) }

\* The captioned images a visual query can match.
ImageDocs ==
    { Image("h1_image_0_0", <<"i">>), Image("h1_image_1_0", <<"j">>) }

\* The values of hybrid_search's k the fusion specification draws.
KValues == {2, 3}

(***************************************************************************)
(* reciprocal_rank_fusion                                                  *)
(***************************************************************************)
RRF_K == 60            \* k: int = 60
vector_weight == 5     \* vector_weight: float = 0.5, in tenths
bm25_weight == 5       \* bm25_weight: float = 0.5, in tenths

\* Scores are exact rationals, kept as integers in units of 1 / ScoreUnit.
ScoreUnit == 10 * ProdRange(RRF_K + 1, RRF_K + MaxList)

\* doc.metadata.get('chunk_id', doc.page_content[:50])
DocId(doc) ==
    IF "chunk_id" \in DOMAIN doc.metadata
    THEN doc.metadata.chunk_id
    ELSE Take(doc.page_content, 50)

\* weight * (1.0 / (k + rank + 1)), rank zero-based
RrfTermNoPlusOne(weight, k, rank) == (weight * ScoreUnit) \div (10 * (k + rank))

RrfTerm(weight, k, rank) == (weight * ScoreUnit) \div (10 * (k + rank + 1))

\* if doc_id in doc_scores: add, keeping the key's place and storing this doc
\* else: a new key at the end of the dict
AddScoreOverwrite(scores, doc, s) ==
    LET hit == {i \in 1..Len(scores) : scores[i].id = DocId(doc)} IN
    IF hit # {}
    THEN [i \in 1..Len(scores) |->
            IF i \in hit THEN [id |-> scores[i].id, doc |-> doc, score |-> s]
            ELSE scores[i]]
    ELSE Append(scores, [id |-> DocId(doc), doc |-> doc, score |-> s])

AddScore(scores, doc, s) ==
    LET hit == {i \in 1..Len(scores) : scores[i].id = DocId(doc)} IN
    IF hit # {}
    THEN [i \in 1..Len(scores) |->
            IF i \in hit
            THEN [id |-> scores[i].id, doc |-> doc, score |-> scores[i].score + s]
            ELSE scores[i]]
    ELSE Append(scores, [id |-> DocId(doc), doc |-> doc, score |-> s])

\* for rank, doc in enumerate(docs): ... ; pos is the one-based position
RECURSIVE ScoreList(_, _, _, _, _)
ScoreList(scores, docs, weight, k, pos) ==
    IF pos > Len(docs) THEN scores
    ELSE ScoreList(AddScore(scores, docs[pos], RrfTerm(weight, k, pos - 1)),
                   docs, weight, k, pos + 1)

BM25Docs(pairs) == [i \in 1..Len(pairs) |-> pairs[i][1]]

RrfDocScores(vec, bm, k, vw, bw) ==
    ScoreList(ScoreList(<<>>, vec, vw, k, 1), BM25Docs(bm), bw, k, 1)

\* sorted(..., key=lambda x: x[1], reverse=True): a stable sort, equal scores
\* keep the order of the dict's values
InsertDescBeforeTies(sorted, e) ==
    LET before == {j \in 1..Len(sorted) : sorted[j].score > e.score}
        n == Cardinality(before)
    IN SubSeq(sorted, 1, n) \o <<e>> \o SubSeq(sorted, n + 1, Len(sorted))

InsertDesc(sorted, e) ==
    LET before == {j \in 1..Len(sorted) : sorted[j].score >= e.score}
        n == Cardinality(before)
    IN SubSeq(sorted, 1, n) \o <<e>> \o SubSeq(sorted, n + 1, Len(sorted))

RECURSIVE SortedByScore(_, _, _)
SortedByScore(sorted, entries, pos) ==
    IF pos > Len(entries) THEN sorted
    ELSE SortedByScore(InsertDesc(sorted, entries[pos]), entries, pos + 1)

reciprocal_rank_fusion(vec, bm, k, vw, bw) ==
    LET sorted_results == SortedByScore(<<>>, RrfDocScores(vec, bm, k, vw, bw), 1)
    IN [i \in 1..Len(sorted_results) |-> sorted_results[i].doc]

(***************************************************************************)
(* hybrid_search                                                           *)
(***************************************************************************)
ImageInsertLimit == 5     \* for img in page_matched_images[:5]

\* The three-way choice of hybrid_search; TRUE in the branch that fuses.
HybridFuses(vec, bm) == bm # <<>> /\ vec # <<>>

HybridCombinedAlwaysFused(vec, bm, k) ==
    Take(reciprocal_rank_fusion(vec, bm, RRF_K, vector_weight, bm25_weight), k)

HybridCombined(vec, bm, k) ==
    IF bm = <<>> THEN Take(vec, k)
    ELSE IF vec = <<>> THEN BM25Docs(Take(bm, k))
    ELSE Take(reciprocal_rank_fusion(vec, bm, RRF_K, vector_weight, bm25_weight), k)

\* for img in page_matched_images[:5]: combined.insert(0, img)
RECURSIVE InsertImages(_, _, _)
InsertImages(list, images, pos) ==
    IF pos > Len(images) THEN list
    ELSE InsertImages(<<images[pos]>> \o list, images, pos + 1)

hybrid_search(vec, bm, k, with_images, images) ==
    LET c == HybridCombined(vec, bm, k) IN
    IF with_images /\ c # <<>>
    THEN InsertImages(c, Take(images, ImageInsertLimit), 1)
    ELSE c

\* bm25_search returns (document, score) pairs, best first, scores positive
BM25Pairs(docs) == [i \in 1..Len(docs) |-> <<docs[i], Len(docs) - i + 1>>]

InitFusion ==
    /\ ConvIdle
    /\ IngestIdle
    /\ ChunkIdle
    /\ RerankIdle
    /\ QueryIdle
    /\ DedupIdle
    /\ CtxIdle
    /\ StoreIdle
    /\ IndexIdle
    /\ fpc = "input"
    /\ hs_k \in KValues
    /\ vector_results \in SeqsUpTo(FusionDocs, MaxList)
    /\ \E docs \in SeqsUpTo(FusionDocs, MaxList) : bm25_results = BM25Pairs(docs)
    /\ Len(vector_results) <= 2 * hs_k
    /\ Len(bm25_results) <= 2 * hs_k
    /\ include_images \in BOOLEAN
    /\ page_matched_images \in
          IF include_images THEN SeqsUpTo(ImageDocs, MaxImages) ELSE {<<>>}
    /\ doc_scores = <<>>
    /\ fused = <<>>
    /\ combined = <<>>
    /\ rrf_calls = 0

\* A direct call of reciprocal_rank_fusion with its default k and weights.
ReciprocalRankFusion ==
    /\ fpc = "input"
    /\ doc_scores' = RrfDocScores(vector_results, bm25_results, RRF_K,
                                  vector_weight, bm25_weight)
    /\ fused' = reciprocal_rank_fusion(vector_results, bm25_results, RRF_K,
                                       vector_weight, bm25_weight)
    /\ rrf_calls' = rrf_calls + 1
    /\ fpc' = "fused"
    /\ UNCHANGED <<vector_results, bm25_results, hs_k, include_images,
                   page_matched_images, combined>>
    /\ UNCHANGED notFusion

\* A call of hybrid_search(query, k, include_images).
HybridSearch ==
    /\ fpc = "input"
    /\ combined' = hybrid_search(vector_results, bm25_results, hs_k,
                                 include_images, page_matched_images)
    /\ IF HybridFuses(vector_results, bm25_results)
       THEN /\ doc_scores' = RrfDocScores(vector_results, bm25_results, RRF_K,
                                          vector_weight, bm25_weight)
            /\ fused' = reciprocal_rank_fusion(vector_results, bm25_results, RRF_K,
                                               vector_weight, bm25_weight)
            /\ rrf_calls' = rrf_calls + 1
       ELSE UNCHANGED <<doc_scores, fused, rrf_calls>>
    /\ fpc' = "searched"
    /\ UNCHANGED <<vector_results, bm25_results, hs_k, include_images,
                   page_matched_images>>
    /\ UNCHANGED notFusion

NextFusion == ReciprocalRankFusion \/ HybridSearch

SpecFusion == InitFusion /\ [][NextFusion]_vars

(***************************************************************************)
(* Claims on fusion and hybrid search (SpecFusion)                         *)
(***************************************************************************)
\* The one-based positions of document id in a list of documents.
PositionsOf(id, docs) == {i \in 1..Len(docs) : DocId(docs[i]) = id}

\* Sum over the positions of id in docs of 0.5 / (60 + rank + 1), rank = pos - 1.
Contribution(id, docs) ==
    SumOver(PositionsOf(id, docs),
            [i \in 1..Len(docs) |-> (5 * ScoreUnit) \div (10 * (60 + (i - 1) + 1))])

ExpectedScore(id) ==
    Contribution(id, vector_results) + Contribution(id, BM25Docs(bm25_results))

InputIds == {DocId(d) : d \in Range(vector_results) \cup Range(BM25Docs(bm25_results))}

\* C1: every document of the fused output has as its total score the sum, over
\* the input lists it appears in, of weight / (60 + rank + 1) with rank its
\* zero-based position and weight 0.5; a document of both lists gets the sum of
\* both contributions.  (A document listed twice by one signal earns once per
\* position.)  The fused output holds exactly the documents of the inputs.
C1_RrfScore ==
    fpc = "fused" =>
        /\ {DocId(d) : d \in Range(fused)} = InputIds
        /\ {e.id : e \in Range(doc_scores)} = InputIds
        /\ Len(fused) = Len(doc_scores)
        /\ \A e \in Range(doc_scores) : e.score = ExpectedScore(e.id)

C1_Witness ==
    /\ fpc = "fused"
    /\ \E d \in Range(fused) :
          /\ PositionsOf(DocId(d), vector_results) # {}
          /\ PositionsOf(DocId(d), BM25Docs(bm25_results)) # {}
    /\ \E d \in Range(fused) : PositionsOf(DocId(d), vector_results) = {}

\* The place at which a document id is first seen: the vector list is processed
\* first, then the BM25 list.
FirstSeen(id) ==
    LET all == vector_results \o BM25Docs(bm25_results)
    IN CHOOSE i \in PositionsOf(id, all) : \A j \in PositionsOf(id, all) : i <= j

\* C2: the fused list is ordered by total score descending, and two documents
\* of equal total score appear in the order in which they were first seen; the
\* output order is therefore a function of the two input lists alone.
C2_SortedStable ==
    fpc = "fused" =>
        \A i, j \in 1..Len(fused) :
            i < j =>
                LET a == DocId(fused[i])
                    b == DocId(fused[j])
                IN /\ a # b
                   /\ ExpectedScore(a) >= ExpectedScore(b)
                   /\ ExpectedScore(a) = ExpectedScore(b) => FirstSeen(a) < FirstSeen(b)

C2_Witness ==
    /\ fpc = "fused"
    /\ \E i, j \in 1..Len(fused) :
          /\ i < j
          /\ ExpectedScore(DocId(fused[i])) = ExpectedScore(DocId(fused[j]))
    /\ \E i, j \in 1..Len(fused) :
          /\ i < j
          /\ ExpectedScore(DocId(fused[i])) > ExpectedScore(DocId(fused[j]))
          /\ FirstSeen(DocId(fused[i])) > FirstSeen(DocId(fused[j]))

\* The two lists share no item.
DisjointLists ==
    {DocId(d) : d \in Range(vector_results)}
        \cap {DocId(d) : d \in Range(BM25Docs(bm25_results))} = {}

\* The score a document earns at a one-based position of one list.
SingleContribution(pos) == (5 * ScoreUnit) \div (10 * (60 + (pos - 1) + 1))

\* Each item of the fused list has the score of its place in its own list.
SingleListScores ==
    /\ \A i \in 1..Len(vector_results) :
          \E e \in Range(doc_scores) :
              e.id = DocId(vector_results[i]) /\ e.score = SingleContribution(i)
    /\ \A i \in 1..Len(bm25_results) :
          \E e \in Range(doc_scores) :
              e.id = DocId(bm25_results[i][1]) /\ e.score = SingleContribution(i)

\* C23 as stated: for two lists of sizes m and n that share no item, fusion
\* returns exactly m + n items, each with the score weight / (60 + rank + 1)
\* of its place in its list.
C23_DisjointFusionAnyLists ==
    (fpc = "fused" /\ DisjointLists) =>
        /\ Len(fused) = Len(vector_results) + Len(bm25_results)
        /\ SingleListScores

\* No list names an item twice.
NoRepeats ==
    /\ \A i, j \in 1..Len(vector_results) :
          i # j => DocId(vector_results[i]) # DocId(vector_results[j])
    /\ \A i, j \in 1..Len(bm25_results) :
          i # j => DocId(bm25_results[i][1]) # DocId(bm25_results[j][1])

\* C23 amended: for two lists of sizes m and n that share no item and name no
\* item twice, fusion returns exactly m + n items, each with the score
\* weight / (60 + rank + 1) of its place in its list.
C23_DisjointFusion ==
    (fpc = "fused" /\ DisjointLists /\ NoRepeats) =>
        /\ Len(fused) = Len(vector_results) + Len(bm25_results)
        /\ SingleListScores

C23_Witness ==
    /\ fpc = "fused"
    /\ DisjointLists
    /\ NoRepeats
    /\ Len(vector_results) = 2
    /\ Len(bm25_results) = 1
    /\ Len(fused) = 3
    /\ SingleListScores

ExactlyOneEmpty ==
    (vector_results = <<>>) # (bm25_results = <<>>)

OtherSignal ==
    IF bm25_results = <<>> THEN vector_results ELSE BM25Docs(bm25_results)

\* The images hybrid_search puts in front of the text results: each one is
\* inserted at the head, so the last inserted comes first.
ImagePrefix ==
    IF include_images
    THEN [i \in 1..Len(page_matched_images) |->
             page_matched_images[Len(page_matched_images) + 1 - i]]
    ELSE <<>>

\* C3 as stated, for a query that asks for no images: with exactly one signal
\* empty, hybrid search returns the other signal's list unchanged (no item
\* dropped) and does no fusion scoring.
C3_FallbackUnchanged ==
    (fpc = "searched" /\ ExactlyOneEmpty /\ ~include_images) =>
        /\ combined = OtherSignal
        /\ rrf_calls = 0

\* C3 amended: with exactly one signal empty, hybrid search does no fusion
\* scoring and returns the first k items of the other signal's list in their
\* order (the whole list when it has at most k items), behind the page-matched
\* images of a visual query; a keyword list of 3 items with k >= 3 and no
\* images comes back as exactly those 3 items.
C3_FallbackFirstK ==
    (fpc = "searched" /\ ExactlyOneEmpty) =>
        /\ rrf_calls = 0
        /\ doc_scores = <<>>
        /\ combined = ImagePrefix \o Take(OtherSignal, hs_k)
        /\ (Len(OtherSignal) <= hs_k /\ ImagePrefix = <<>>) => combined = OtherSignal

C3_Witness ==
    /\ fpc = "searched"
    /\ vector_results = <<>>
    /\ Len(bm25_results) = 3
    /\ combined = BM25Docs(bm25_results)

(***************************************************************************)
(* Text operations of Python's str used by the deduplication               *)
(***************************************************************************)
IsSpace(c) == c \in {" ", "\n"}

\* str.lower() on the letters the texts use
Lower(s) ==
    [i \in 1..Len(s) |->
        CASE s[i] = "A" -> "a"
          [] s[i] = "B" -> "b"
          [] OTHER -> s[i]]

\* str.strip()
Strip(s) ==
    LET keep == {i \in 1..Len(s) : ~IsSpace(s[i])} IN
    IF keep = {} THEN <<>>
    ELSE LET lo == CHOOSE i \in keep : \A j \in keep : i <= j
             hi == CHOOSE i \in keep : \A j \in keep : i >= j
         IN SubSeq(s, lo, hi)

\* str.split(): the maximal runs of non-whitespace characters, in order
RECURSIVE Split(_)
Split(s) ==
    IF s = <<>> THEN <<>>
    ELSE IF IsSpace(s[1]) THEN Split(Tail(s))
    ELSE LET stops == {i \in 1..Len(s) : IsSpace(s[i])}
             end == IF stops = {} THEN Len(s) + 1
                    ELSE CHOOSE i \in stops : \A j \in stops : i <= j
         IN <<SubSeq(s, 1, end - 1)>> \o Split(SubSeq(s, end, Len(s)))

\* ' '.join(words)
RECURSIVE JoinSpace(_)
JoinSpace(words) ==
    IF words = <<>> THEN <<>>
    ELSE IF Len(words) = 1 THEN words[1]
    ELSE words[1] \o <<" ">> \o JoinSpace(Tail(words))

\* a in b, for strings
Contains(a, b) ==
    \E i \in 0..(Len(b) - Len(a)) : SubSeq(b, i + 1, i + Len(a)) = a

(***************************************************************************)
(* ParentChildRAG._is_too_similar and _deduplicate_aggressively            *)
(***************************************************************************)
ShortTextThreshold == 50     \* len(content1) < 50 or len(content2) < 50
SimilarityPercent == 85      \* threshold: float = 0.85, in hundredths

\* The token-overlap test alone, without the containment test for short texts.
is_too_similar_tokens_only(content1, content2) ==
    IF content1 = content2 THEN TRUE
    ELSE LET words1 == Range(Split(Lower(content1)))
             words2 == Range(Split(Lower(content2)))
             intersection == Cardinality(words1 \cap words2)
             smaller_set == IF Cardinality(words1) < Cardinality(words2)
                            THEN Cardinality(words1) ELSE Cardinality(words2)
         IN IF words1 = {} \/ words2 = {} THEN FALSE
            ELSE intersection * 100 >= SimilarityPercent * smaller_set

\* The test that looks for the first text inside the second only.
is_too_similar_one_way(content1, content2) ==
    IF content1 = content2 THEN TRUE
    ELSE IF Len(content1) < ShortTextThreshold \/ Len(content2) < ShortTextThreshold
    THEN Contains(content1, content2)
    ELSE LET words1 == Range(Split(Lower(content1)))
             words2 == Range(Split(Lower(content2)))
             intersection == Cardinality(words1 \cap words2)
             smaller_set == IF Cardinality(words1) < Cardinality(words2)
                            THEN Cardinality(words1) ELSE Cardinality(words2)
         IN IF words1 = {} \/ words2 = {} THEN FALSE
            ELSE intersection * 100 >= SimilarityPercent * smaller_set

is_too_similar(content1, content2) ==
    IF content1 = content2 THEN TRUE
    ELSE IF Len(content1) < ShortTextThreshold \/ Len(content2) < ShortTextThreshold
    THEN LET longer == IF Len(content1) > Len(content2) THEN content1 ELSE content2
             shorter == IF Len(content1) > Len(content2) THEN content2 ELSE content1
         IN Contains(shorter, longer)
    ELSE LET words1 == Range(Split(Lower(content1)))
             words2 == Range(Split(Lower(content2)))
             intersection == Cardinality(words1 \cap words2)
             smaller_set == IF Cardinality(words1) < Cardinality(words2)
                            THEN Cardinality(words1) ELSE Cardinality(words2)
         IN IF words1 = {} \/ words2 = {} THEN FALSE
            ELSE intersection * 100 >= SimilarityPercent * smaller_set

\* The loop turn that accepts every candidate.
DedupStepKeepsAll(st, doc) ==
    [unique_docs |-> Append(st.unique_docs, doc),
     seen_content |-> st.seen_content \cup {Strip(doc.page_content)},
     seen_normalized |-> st.seen_normalized]

\* The loop turn putting an accepted candidate in front of the accepted ones.
DedupStepPrepends(st, doc) ==
    LET content == Strip(doc.page_content)
        normalized == JoinSpace(Split(Lower(content)))
    IN IF content \in st.seen_content THEN st
       ELSE IF normalized \in st.seen_normalized THEN st
       ELSE IF \E i \in 1..Len(st.unique_docs) :
                  is_too_similar(content, st.unique_docs[i].page_content)
       THEN st
       ELSE [unique_docs |-> <<doc>> \o st.unique_docs,
             seen_content |-> st.seen_content \cup {content},
             seen_normalized |-> st.seen_normalized \cup {normalized}]

\* One turn of the loop "for doc in docs": st holds unique_docs and the two
\* seen sets.
DedupStep(st, doc) ==
    LET content == Strip(doc.page_content)
        normalized == JoinSpace(Split(Lower(content)))
    IN IF content \in st.seen_content THEN st
       ELSE IF normalized \in st.seen_normalized THEN st
       ELSE IF \E i \in 1..Len(st.unique_docs) :
                  is_too_similar(content, st.unique_docs[i].page_content)
       THEN st
       ELSE [unique_docs |-> Append(st.unique_docs, doc),
             seen_content |-> st.seen_content \cup {content},
             seen_normalized |-> st.seen_normalized \cup {normalized}]

RECURSIVE DedupLoop(_, _, _)
DedupLoop(st, docs, pos) ==
    IF pos > Len(docs) THEN st
    ELSE DedupLoop(DedupStep(st, docs[pos]), docs, pos + 1)

deduplicate_aggressively(docs) ==
    IF docs = <<>> THEN <<>>
    ELSE DedupLoop([unique_docs |-> <<>>, seen_content |-> {}, seen_normalized |-> {}],
                   docs, 1).unique_docs

(***************************************************************************)
(* The candidate texts of the deduplication specification                  *)
(***************************************************************************)
\* A word of seven equal letters, and texts of seven such words (55 characters).
Word(c) == [i \in 1..7 |-> c]

LongText(letters) == JoinSpace([i \in 1..Len(letters) |-> Word(letters[i])])

DedupTexts ==
    { <<"a", "b">>,                                    \* "ab"
      <<"x", "a", "b", "y">>,                          \* "xaby", contains "ab"
      <<" ", "a", "b">>,                               \* " ab", strips to "ab"
      <<"A", "B">>,                                    \* "AB", normalizes to "ab"
      <<"b", "a", " ">>,                               \* "ba ", contains "a "
      <<"a", " ">>,                                    \* "a "
      <<"b">>,                                         \* "b", inside "ab"
      Word("a"),                                       \* a word of the long texts
      LongText(<<"a", "b", "c", "d", "e", "f", "g">>),
      LongText(<<"a", "b", "c", "d", "e", "f", "h">>), \* shares 6 of 7 words
      LongText(<<"a", "b", "c", "d", "e", "h", "i">>)  \* shares 5 of 7 words
    }

\* One candidate per text; its chunk id names the text.
DedupCandidates == {Child(t, "h1_parent_0", t) : t \in DedupTexts}

InitDedup ==
    /\ ConvIdle
    /\ IngestIdle
    /\ ChunkIdle
    /\ RerankIdle
    /\ QueryIdle
    /\ FusionIdle
    /\ CtxIdle
    /\ StoreIdle
    /\ IndexIdle
    /\ dpc = "input"
    /\ dedup_docs \in SeqsUpTo(DedupCandidates, MaxCands)
    /\ unique_docs = <<>>

\* A call of _deduplicate_aggressively(docs).
DeduplicateAggressively ==
    /\ dpc = "input"
    /\ unique_docs' = deduplicate_aggressively(dedup_docs)
    /\ dpc' = "done"
    /\ UNCHANGED dedup_docs
    /\ UNCHANGED notDedup

NextDedup == DeduplicateAggressively

SpecDedup == InitDedup /\ [][NextDedup]_vars

(***************************************************************************)
(* Claims on deduplication (SpecDedup)                                     *)
(***************************************************************************)
NoEdgeSpace(t) == Strip(t) = t

\* Two candidates, both texts below the short-text threshold and free of
\* leading and trailing whitespace, one text properly contained in the other.
ContainedPair ==
    /\ Len(dedup_docs) = 2
    /\ LET t1 == dedup_docs[1].page_content
           t2 == dedup_docs[2].page_content
       IN /\ Len(t1) < ShortTextThreshold /\ Len(t2) < ShortTextThreshold
          /\ NoEdgeSpace(t1) /\ NoEdgeSpace(t2)
          /\ Len(t1) # Len(t2)
          /\ Contains(t1, t2) \/ Contains(t2, t1)

LongerOfPair ==
    IF Len(dedup_docs[1].page_content) > Len(dedup_docs[2].page_content)
    THEN dedup_docs[1] ELSE dedup_docs[2]

\* C4 as stated: of a contained pair of short texts, deduplicate returns only
\* the longer chunk, in either input order.
C4_LongerSurvives ==
    (dpc = "done" /\ ContainedPair) => unique_docs = <<LongerOfPair>>

\* C4 amended: of a contained pair of short texts, deduplicate returns exactly
\* one chunk, the one that comes first in the input; the longer chunk survives
\* only when it precedes the shorter one.
C4_FirstOfPairSurvives ==
    (dpc = "done" /\ ContainedPair) =>
        /\ unique_docs = <<dedup_docs[1]>>
        /\ (unique_docs = <<LongerOfPair>>) <=> (LongerOfPair = dedup_docs[1])

C4_Witness ==
    /\ dpc = "done"
    /\ ContainedPair
    /\ dedup_docs[1] # LongerOfPair
    /\ unique_docs = <<dedup_docs[1]>>

\* u is a subsequence of d: the items of u occur in d in the same order.
RECURSIVE IsSubsequence(_, _)
IsSubsequence(u, d) ==
    IF u = <<>> THEN TRUE
    ELSE IF d = <<>> THEN FALSE
    ELSE IF u[1] = d[1] THEN IsSubsequence(Tail(u), Tail(d))
    ELSE IsSubsequence(u, Tail(d))

\* The candidate at position i of the input is accepted by the loop.
Kept(i) ==
    Len(deduplicate_aggressively(Take(dedup_docs, i)))
        > Len(deduplicate_aggressively(Take(dedup_docs, i - 1)))

\* The later candidate is a duplicate of the earlier one or too similar to it,
\* by the three tests of the loop: same stripped text, same normalized text,
\* _is_too_similar of the later stripped text and the earlier text.
DuplicateOrTooSimilar(later, earlier) ==
    LET content == Strip(later.page_content)
        accepted == Strip(earlier.page_content)
    IN \/ content = accepted
       \/ JoinSpace(Split(Lower(content))) = JoinSpace(Split(Lower(accepted)))
       \/ is_too_similar(content, earlier.page_content)

\* C12 as stated: the output is a subsequence of the input and of any two input
\* candidates that are duplicates or too similar, the later one is never the
\* one kept.
C12_EarlierOfAnyPairKept ==
    dpc = "done" =>
        /\ IsSubsequence(unique_docs, dedup_docs)
        /\ \A i, j \in 1..Len(dedup_docs) :
              (i < j /\ DuplicateOrTooSimilar(dedup_docs[j], dedup_docs[i])) =>
                  ~Kept(j)

\* C12 amended: the output is a subsequence of the input, it is the accepted
\* candidates in input order, and a candidate is dropped exactly when it is a
\* duplicate of, or too similar to, an earlier candidate that was kept.
C12_FirstKeptWins ==
    dpc = "done" =>
        /\ IsSubsequence(unique_docs, dedup_docs)
        /\ unique_docs = SelectSeq(unique_docs, LAMBDA d : d \in Range(dedup_docs))
        /\ Len(unique_docs) = Cardinality({i \in 1..Len(dedup_docs) : Kept(i)})
        /\ \A i \in 1..Len(dedup_docs) :
              Kept(i) => \E n \in 1..Len(unique_docs) : unique_docs[n] = dedup_docs[i]
        /\ \A j \in 1..Len(dedup_docs) :
              ~Kept(j) <=>
                  \E i \in 1..(j - 1) :
                      Kept(i) /\ DuplicateOrTooSimilar(dedup_docs[j], dedup_docs[i])

\* A chain: the second candidate is dropped for the first, the third is too
\* similar to the second only and is kept.
C12_Witness ==
    /\ dpc = "done"
    /\ Len(dedup_docs) = 3
    /\ DuplicateOrTooSimilar(dedup_docs[2], dedup_docs[1])
    /\ DuplicateOrTooSimilar(dedup_docs[3], dedup_docs[2])
    /\ ~DuplicateOrTooSimilar(dedup_docs[3], dedup_docs[1])
    /\ unique_docs = <<dedup_docs[1], dedup_docs[3]>>

\* The pairs of input positions holding the same string.
ExactDuplicatePairs ==
    {pair \in (1..Len(dedup_docs)) \X (1..Len(dedup_docs)) :
        /\ pair[1] < pair[2]
        /\ dedup_docs[pair[1]].page_content = dedup_docs[pair[2]].page_content}

\* The input without the item at position j.
WithoutPosition(j) ==
    SubSeq(dedup_docs, 1, j - 1) \o SubSeq(dedup_docs, j + 1, Len(dedup_docs))

\* C13 as stated: for any input list that contains an exact duplicate string,
\* the result size is exactly len(input) - 1.
C13_AnyDuplicateDropsOne ==
    (dpc = "done" /\ ExactDuplicatePairs # {}) =>
        Len(unique_docs) = Len(dedup_docs) - 1

\* Exactly one pair of positions holds the same string and no other later
\* candidate is a duplicate of, or too similar to, an earlier one.
OneDuplicateOnly ==
    /\ Cardinality(ExactDuplicatePairs) = 1
    /\ \A i, j \in 1..Len(dedup_docs) :
          (i < j /\ <<i, j>> \notin ExactDuplicatePairs) =>
              ~DuplicateOrTooSimilar(dedup_docs[j], dedup_docs[i])

\* C13 amended: for an input list in which exactly one string occurs twice and
\* no other candidate is a duplicate of or too similar to an earlier one, the
\* result is the input without the second occurrence: its size is
\* len(input) - 1.
C13_OneDuplicateDropsOne ==
    (dpc = "done" /\ OneDuplicateOnly) =>
        /\ Len(unique_docs) = Len(dedup_docs) - 1
        /\ \A pair \in ExactDuplicatePairs : unique_docs = WithoutPosition(pair[2])

C13_Witness ==
    /\ dpc = "done"
    /\ OneDuplicateOnly
    /\ Len(dedup_docs) = 3
    /\ <<1, 3>> \in ExactDuplicatePairs
    /\ unique_docs = <<dedup_docs[1], dedup_docs[2]>>

\* The lowercased, whitespace-split token set of a text.
TokenSet(t) == Range(Split(Lower(t)))

Smaller(m, n) == IF m < n THEN m ELSE n

\* The decision rule in words: (a) either text is shorter than 50 characters
\* and one is a substring of the other, or (b) both have 50 characters or more
\* and the token overlap over the smaller token set is at least 0.85.
RuleTooSimilar(a, b) ==
    \/ /\ Len(a) < 50 \/ Len(b) < 50
       /\ Contains(a, b) \/ Contains(b, a)
    \/ /\ Len(a) >= 50 /\ Len(b) >= 50
       /\ 100 * Cardinality(TokenSet(a) \cap TokenSet(b))
              >= 85 * Smaller(Cardinality(TokenSet(a)), Cardinality(TokenSet(b)))

\* The later candidate has the stripped or the normalized text of the earlier.
ExactOrNormalizedDuplicate(later, earlier) ==
    \/ Strip(later.page_content) = Strip(earlier.page_content)
    \/ JoinSpace(Split(Lower(Strip(later.page_content))))
           = JoinSpace(Split(Lower(Strip(earlier.page_content))))

\* C14: _is_too_similar judges two texts too similar exactly when the rule
\* (a)/(b) holds of them, and a candidate is rejected exactly when it is an
\* exact or normalized duplicate of an accepted candidate or the rule holds of
\* its text (stripped of leading and trailing whitespace, as the loop passes
\* it) and the text of at least one accepted candidate.
C14_DecisionRule ==
    dpc = "done" =>
        /\ \A i, j \in 1..Len(dedup_docs) :
              is_too_similar(dedup_docs[i].page_content, dedup_docs[j].page_content)
                  <=> RuleTooSimilar(dedup_docs[i].page_content, dedup_docs[j].page_content)
        /\ \A j \in 1..Len(dedup_docs) :
              ~Kept(j) <=>
                  \E i \in 1..(j - 1) :
                      /\ Kept(i)
                      /\ \/ ExactOrNormalizedDuplicate(dedup_docs[j], dedup_docs[i])
                         \/ RuleTooSimilar(Strip(dedup_docs[j].page_content),
                                           dedup_docs[i].page_content)

\* Both halves of the rule decide: a long candidate is rejected for its token
\* overlap with the first, a short one for being inside the first.
C14_Witness ==
    /\ dpc = "done"
    /\ Len(dedup_docs) = 3
    /\ Len(dedup_docs[1].page_content) >= 50
    /\ Len(dedup_docs[2].page_content) >= 50
    /\ Len(dedup_docs[3].page_content) < 50
    /\ dedup_docs[1] # dedup_docs[2]
    /\ RuleTooSimilar(dedup_docs[2].page_content, dedup_docs[1].page_content)
    /\ RuleTooSimilar(dedup_docs[3].page_content, dedup_docs[1].page_content)
    /\ unique_docs = <<dedup_docs[1]>>

\* C27: deduplication is idempotent: deduplicating the output again gives the
\* output, and in the output no later item is an exact or normalized duplicate
\* of, or too similar to, an earlier item.
C27_Idempotent ==
    dpc = "done" =>
        /\ deduplicate_aggressively(unique_docs) = unique_docs
        /\ \A i, j \in 1..Len(unique_docs) :
              i < j =>
                  /\ ~ExactOrNormalizedDuplicate(unique_docs[j], unique_docs[i])
                  /\ ~RuleTooSimilar(Strip(unique_docs[j].page_content),
                                     unique_docs[i].page_content)

\* A candidate was dropped and more than one was kept.
C27_Witness ==
    /\ dpc = "done"
    /\ Len(unique_docs) >= 2
    /\ Len(unique_docs) < Len(dedup_docs)

(***************************************************************************)
(* ParentChildRAG._build_context_with_parents                              *)
(***************************************************************************)
\* ParentDocumentStore.get_document: self.store.get(doc_id), None (NoDocument)
\* for an id the store does not hold.
NoDocument == [absent |-> TRUE]

get_document(doc_id) ==
    IF doc_id \in DOMAIN store THEN store[doc_id] ELSE NoDocument

\* Python's truth value of a parent id: None and "" are false.
Truthy(parent_id) == parent_id # None /\ parent_id # ""

\* A part of the context: the source label "[Source i+1: ...]" (full marks the
\* "(Full Section)" label of a parent) and the text under it.
ContextPart(i, full, text) == [source |-> i + 1, full |-> full, text |-> text]

\* One turn of "for i, child in enumerate(child_docs)" on st = the seen set and
\* the parts so far.
ContextTurnForgetSeen(st, i, child) ==
    LET parent_id == MetaGet(child, "parent_id") IN
    IF Truthy(parent_id) /\ get_document(parent_id) # NoDocument
    THEN [seen |-> st.seen,
          parts |-> Append(st.parts,
                           ContextPart(i, TRUE, get_document(parent_id).page_content))]
    ELSE [seen |-> st.seen,
          parts |-> Append(st.parts, ContextPart(i, FALSE, child.page_content))]

ContextTurnDropsUnresolved(st, i, child) ==
    LET parent_id == MetaGet(child, "parent_id") IN
    IF Truthy(parent_id) /\ parent_id \notin st.seen /\ get_document(parent_id) # NoDocument
    THEN [seen |-> st.seen \cup {parent_id},
          parts |-> Append(st.parts,
                           ContextPart(i, TRUE, get_document(parent_id).page_content))]
    ELSE st

ContextTurn(st, i, child) ==
    LET parent_id == MetaGet(child, "parent_id") IN
    IF Truthy(parent_id) /\ parent_id \notin st.seen
    THEN LET parent_doc == get_document(parent_id) IN
         IF parent_doc # NoDocument
         THEN [seen |-> st.seen \cup {parent_id},
               parts |-> Append(st.parts, ContextPart(i, TRUE, parent_doc.page_content))]
         ELSE [seen |-> st.seen,
               parts |-> Append(st.parts, ContextPart(i, FALSE, child.page_content))]
    ELSE IF parent_id \in st.seen
    THEN st
    ELSE [seen |-> st.seen,
          parts |-> Append(st.parts, ContextPart(i, FALSE, child.page_content))]

\* The parents and the ranked chunks of the context-assembly specification.
CtxParents ==
    { Parent("h1_parent_0", "h1", <<"a", "b">>),
      Parent("h1_parent_1", "h1", <<"c">>) }

CtxChildren ==
    { Child("h1_parent_0_child_0", "h1_parent_0", <<"a">>),
      Child("h1_parent_0_child_1", "h1_parent_0", <<"b">>),
      Child("h1_parent_1_child_0", "h1_parent_1", <<"c">>),
      Image("h1_image_0_0", <<"i">>),
      Orphan("chunk_0", <<"o">>) }

\* The store holding the parents ps, keyed by parent id.
StoreOf(ps) ==
    [id \in {q.metadata.parent_id : q \in ps} |->
        CHOOSE q \in ps : q.metadata.parent_id = id]

InitContext ==
    /\ ConvIdle
    /\ IngestIdle
    /\ ChunkIdle
    /\ RerankIdle
    /\ QueryIdle
    /\ FusionIdle
    /\ DedupIdle
    /\ \E ps \in SUBSET CtxParents : store = StoreOf(ps)
    /\ PersistIdle
    /\ IndexIdle
    /\ cpc = "loop"
    /\ child_docs \in SeqsUpTo(CtxChildren, MaxRanked)
    /\ ctx_i = 0
    /\ seen_parents = {}
    /\ context_parts = <<>>

\* One turn of the loop of _build_context_with_parents.
BuildContextTurn ==
    /\ cpc = "loop"
    /\ ctx_i < Len(child_docs)
    /\ LET st == ContextTurn([seen |-> seen_parents, parts |-> context_parts],
                             ctx_i, child_docs[ctx_i + 1])
       IN /\ seen_parents' = st.seen
          /\ context_parts' = st.parts
    /\ ctx_i' = ctx_i + 1
    /\ UNCHANGED <<cpc, child_docs>>
    /\ UNCHANGED notContext

\* The end of the loop: context = "\n\n".join(context_parts) is returned.
BuildContextReturn ==
    /\ cpc = "loop"
    /\ ctx_i = Len(child_docs)
    /\ cpc' = "done"
    /\ UNCHANGED <<child_docs, ctx_i, seen_parents, context_parts>>
    /\ UNCHANGED notContext

NextContext == BuildContextTurn \/ BuildContextReturn

SpecContext == InitContext /\ [][NextContext]_vars

(***************************************************************************)
(* Claims on context assembly (SpecContext)                                *)
(***************************************************************************)
\* All ranked children carry the parent id p.
AllShareParent(p) ==
    \A i \in 1..Len(child_docs) : MetaGet(child_docs[i], "parent_id") = p

\* The parts of the context that are the full text of parent p.
InstancesOf(p) ==
    {j \in 1..Len(context_parts) :
        /\ context_parts[j].full
        /\ MetaGet(child_docs[context_parts[j].source], "parent_id") = p
        /\ context_parts[j].text = store[p].page_content}

\* C10: for N >= 1 ranked children that all share one parent id (a parent held
\* by the Document Store), the assembled context holds exactly one instance of
\* that parent's text and nothing else; and once a parent has been included, no
\* later child with that parent id adds a part to the context.
C10_ParentOnce ==
    /\ \A p \in DOMAIN store :
          (cpc = "done" /\ Len(child_docs) >= 1 /\ AllShareParent(p)) =>
              /\ Cardinality(InstancesOf(p)) = 1
              /\ Len(context_parts) = 1
    /\ \A j \in 1..Len(context_parts) :
          context_parts[j].full =>
              \A n \in 1..Len(context_parts) :
                  (context_parts[n].source > context_parts[j].source) =>
                      MetaGet(child_docs[context_parts[n].source], "parent_id")
                          # MetaGet(child_docs[context_parts[j].source], "parent_id")

C10_Witness ==
    /\ cpc = "done"
    /\ Len(child_docs) = 3
    /\ child_docs[1] # child_docs[2]
    /\ \E p \in DOMAIN store :
          /\ AllShareParent(p)
          /\ Cardinality(InstancesOf(p)) = 1
          /\ Len(context_parts) = 1

\* The parent id of ranked child i resolves in the Document Store.
ParentResolves(i) ==
    /\ Truthy(MetaGet(child_docs[i], "parent_id"))
    /\ MetaGet(child_docs[i], "parent_id") \in DOMAIN store

\* The full text of the parent of ranked child i is in the context, put there
\* at or before position i.
ParentTextIncluded(i) ==
    \E j \in 1..Len(context_parts) :
        /\ context_parts[j].full
        /\ context_parts[j].source <= i
        /\ MetaGet(child_docs[context_parts[j].source], "parent_id")
               = MetaGet(child_docs[i], "parent_id")
        /\ context_parts[j].text
               = store[MetaGet(child_docs[i], "parent_id")].page_content

\* The own text of ranked child i is in the context under its source label.
ChildTextIncluded(i) ==
    \E j \in 1..Len(context_parts) :
        /\ ~context_parts[j].full
        /\ context_parts[j].source = i
        /\ context_parts[j].text = child_docs[i].page_content

\* C11: no ranked child is dropped silently: once the context is assembled,
\* for every ranked child either its parent's full text is in the context
\* (included at or before the child's position) or, when the parent id does not
\* resolve in the Document Store or the child has none, the child's own text is.
C11_NeverDropsCandidate ==
    cpc = "done" =>
        \A i \in 1..Len(child_docs) :
            IF ParentResolves(i) THEN ParentTextIncluded(i) ELSE ChildTextIncluded(i)

C11_Witness ==
    /\ cpc = "done"
    /\ Len(child_docs) = 3
    /\ ParentResolves(1) /\ ParentTextIncluded(1)
    /\ ParentResolves(2) /\ ParentTextIncluded(2) /\ Len(context_parts) = 2
    /\ ~ParentResolves(3) /\ ChildTextIncluded(3)
    /\ Truthy(MetaGet(child_docs[3], "parent_id"))

(***************************************************************************)
(* ParentDocumentStore: the in-memory dict and the file docstore.json      *)
(***************************************************************************)
\* dict operations
Put(d, k, v) == [x \in DOMAIN d \cup {k} |-> IF x = k THEN v ELSE d[x]]

Restrict(d, S) == [x \in S |-> d[x]]

\* The file is a sequence of tokens: an opening brace, one member per stored
\* document, a closing brace (json.dump of the dict "data").
OpenBrace == [tok |-> "{"]

CloseBrace == [tok |-> "}"]

\* _save, lines 49-53: the member written for doc_id.
Member(doc_id, doc) ==
    [tok |-> "member", key |-> doc_id,
     value |-> [page_content |-> doc.page_content, metadata |-> doc.metadata]]

RECURSIVE Members(_)
Members(d) ==
    IF DOMAIN d = {} THEN <<>>
    ELSE LET k == CHOOSE x \in DOMAIN d : TRUE
         IN <<Member(k, d[k])>> \o Members(Restrict(d, DOMAIN d \ {k}))

\* json.dump(data, f)
JsonDump(d) == <<OpenBrace>> \o Members(d) \o <<CloseBrace>>

\* A member whose value is not an object with the fields of a document (a
\* string, a number): json.load parses it, doc_data.get raises on it.
MalformedMember(doc_id) == [tok |-> "malformed member", key |-> doc_id]

\* json.load accepts exactly one object: brace, members, brace.
JsonWellFormed(content) ==
    /\ Len(content) >= 2
    /\ content[1] = OpenBrace
    /\ content[Len(content)] = CloseBrace
    /\ \A i \in 2..(Len(content) - 1) :
          content[i].tok \in {"member", "malformed member"}

\* _load, lines 37-44: the entries of the parsed object, put one by one in
\* file order; an entry that raises ends the loop (line 43) and the entries
\* put before it stay in the store.
RECURSIVE LoadItems(_, _, _)
LoadItems(content, i, acc) ==
    IF i > Len(content) - 1 THEN acc
    ELSE IF content[i].tok = "malformed member" THEN acc
    ELSE LoadItems(content, i + 1,
                   Put(acc, content[i].key,
                       [page_content |-> content[i].value.page_content,
                        metadata |-> content[i].value.metadata]))

\* _load into the empty store of a fresh ParentDocumentStore: nothing is loaded
\* when the file is absent or json.load raises.
Load(f) ==
    IF ~f.exists THEN EmptyDict
    ELSE IF ~JsonWellFormed(f.content) THEN EmptyDict
    ELSE LoadItems(f.content, 2, EmptyDict)

\* What a writer leaves in the file: its bytes from offset 0 over whatever the
\* file holds beyond them (open(path, 'w') truncated the file when this writer
\* opened it; another writer may have written since).
WriteOver(old, new) ==
    IF Len(old) > Len(new) THEN new \o SubSeq(old, Len(new) + 1, Len(old))
    ELSE new

\* The parents of the Document Store specifications: two sections of the file
\* with hash h1, one of the file with hash h2.
StoreParents ==
    { Parent("h1_parent_0", "h1", <<"a", "b">>),
      Parent("h1_parent_1", "h1", <<"c">>),
      Parent("h2_parent_0", "h2", <<"d">>) }

FileHashes == {"h1", "h2"}

\* A fresh process: the store is what _load reads from the file.
ConstructedFrom(ps) ==
    /\ file = IF ps = {} THEN NoFile
              ELSE [exists |-> TRUE, content |-> JsonDump(StoreOf(ps))]
    /\ store = Load(file)
    /\ data = [t \in Writers |-> EmptyDict]
    /\ pre_store = EmptyDict

\* add_document, line 64
AddDocument(t) ==
    /\ wpc[t] = "idle"
    /\ \E p \in StoreParents : store' = Put(store, p.metadata.parent_id, p)
    /\ pre_store' = store
    /\ wpc' = [wpc EXCEPT ![t] = "save"]
    /\ UNCHANGED <<file, data>>
    /\ UNCHANGED notStore

\* delete_by_file_hash, lines 77-88: _save only when something was deleted
DeleteByFileHash(t) ==
    /\ wpc[t] = "idle"
    /\ \E file_hash \in FileHashes :
          LET to_delete == {id \in DOMAIN store :
                               MetaGet(store[id], "file_hash") = file_hash}
          IN /\ store' = Restrict(store, DOMAIN store \ to_delete)
             /\ wpc' = [wpc EXCEPT ![t] = IF to_delete # {} THEN "save" ELSE "idle"]
             /\ pre_store' = IF to_delete # {} THEN store ELSE pre_store
    /\ UNCHANGED <<file, data>>
    /\ UNCHANGED notStore

\* clear, line 92
Clear(t) ==
    /\ wpc[t] = "idle"
    /\ store' = EmptyDict
    /\ pre_store' = store
    /\ wpc' = [wpc EXCEPT ![t] = "save"]
    /\ UNCHANGED <<file, data>>
    /\ UNCHANGED notStore

\* _save, lines 48-54: data is built from the store as it is now
SaveData(t) ==
    /\ wpc[t] = "save"
    /\ data' = [data EXCEPT ![t] = store]
    /\ wpc' = [wpc EXCEPT ![t] = "open"]
    /\ UNCHANGED <<store, file, pre_store>>
    /\ UNCHANGED notStore

\* _save, line 56: open(path, 'w') creates or truncates the file
SaveOpen(t) ==
    /\ wpc[t] = "open"
    /\ file' = [exists |-> TRUE, content |-> <<>>]
    /\ wpc' = [wpc EXCEPT ![t] = "dump"]
    /\ UNCHANGED <<store, data, pre_store>>
    /\ UNCHANGED notStore

\* _save, line 56, open raises (directory not writable): lines 59-60 print the
\* error and the call returns
SaveOpenFails(t) ==
    /\ wpc[t] = "open"
    /\ wpc' = [wpc EXCEPT ![t] = "idle"]
    /\ data' = [data EXCEPT ![t] = EmptyDict]
    /\ pre_store' = EmptyDict
    /\ UNCHANGED <<store, file>>
    /\ UNCHANGED notStore

\* _save, line 57: json.dump and the close of the file; the call returns
SaveDump(t) ==
    /\ wpc[t] = "dump"
    /\ file' = [exists |-> TRUE, content |-> WriteOver(file.content, JsonDump(data[t]))]
    /\ wpc' = [wpc EXCEPT ![t] = "idle"]
    /\ data' = [data EXCEPT ![t] = EmptyDict]
    /\ pre_store' = EmptyDict
    /\ UNCHANGED store
    /\ UNCHANGED notStore

\* _save, line 57, the write raises part-way (device full): a prefix of the
\* bytes is in the file, lines 59-60 print the error and the call returns
SaveDumpFails(t) ==
    /\ wpc[t] = "dump"
    /\ \E n \in 0..(Len(JsonDump(data[t])) - 1) :
          file' = [exists |-> TRUE,
                   content |-> WriteOver(file.content, Take(JsonDump(data[t]), n))]
    /\ wpc' = [wpc EXCEPT ![t] = "idle"]
    /\ data' = [data EXCEPT ![t] = EmptyDict]
    /\ pre_store' = EmptyDict
    /\ UNCHANGED store
    /\ UNCHANGED notStore

\* The process is restarted between calls: _docstore = ParentDocumentStore()
\* runs __init__ and _load on the file as it is.
Restart ==
    /\ \A t \in Writers : wpc[t] \in {"idle", "off", "crashed"}
    /\ store' = Load(file)
    /\ data' = [t \in Writers |-> EmptyDict]
    /\ pre_store' = EmptyDict
    /\ wpc' = [t \in Writers |-> IF wpc[t] = "crashed" THEN "idle" ELSE wpc[t]]
    /\ UNCHANGED file
    /\ UNCHANGED notStore

\* Every call into the Document Store has returned.
AllReturned == \A t \in Writers : wpc[t] \in {"idle", "off"}

\* ---- one caller at a time, on a medium that can refuse writes
InitStoreSeq ==
    /\ ConvIdle
    /\ IngestIdle
    /\ ChunkIdle
    /\ RerankIdle
    /\ QueryIdle
    /\ FusionIdle
    /\ DedupIdle
    /\ CtxIdle
    /\ IndexIdle
    /\ \E ps \in SUBSET StoreParents : ConstructedFrom(ps)
    /\ wpc = [t \in Writers |-> IF t = "w1" THEN "idle" ELSE "off"]

NextStoreSeq ==
    \/ \E t \in Writers : AddDocument(t)
    \/ \E t \in Writers : DeleteByFileHash(t)
    \/ \E t \in Writers : Clear(t)
    \/ \E t \in Writers : SaveData(t)
    \/ \E t \in Writers : SaveOpen(t)
    \/ \E t \in Writers : SaveOpenFails(t)
    \/ \E t \in Writers : SaveDump(t)
    \/ \E t \in Writers : SaveDumpFails(t)
    \/ Restart

SpecStoreSeq == InitStoreSeq /\ [][NextStoreSeq]_vars

\* ---- two callers at once (an ingestion and a reset, or two resets), on a
\* ---- medium that takes every write
InitStoreConc ==
    /\ ConvIdle
    /\ IngestIdle
    /\ ChunkIdle
    /\ RerankIdle
    /\ QueryIdle
    /\ FusionIdle
    /\ DedupIdle
    /\ CtxIdle
    /\ IndexIdle
    /\ \E ps \in SUBSET StoreParents : ConstructedFrom(ps)
    /\ wpc = [t \in Writers |-> "idle"]

NextStoreConc ==
    \/ \E t \in Writers : AddDocument(t)
    \/ \E t \in Writers : DeleteByFileHash(t)
    \/ \E t \in Writers : Clear(t)
    \/ \E t \in Writers : SaveData(t)
    \/ \E t \in Writers : SaveOpen(t)
    \/ \E t \in Writers : SaveDump(t)

SpecStoreConc == InitStoreConc /\ [][NextStoreConc]_vars

(***************************************************************************)
(* Claims on the Document Store                                            *)
(***************************************************************************)
\* C6: once every add_document / delete_by_file_hash / clear call has returned,
\* loading the persisted file into a fresh store reproduces the in-memory
\* store: the same ids, each with the same text and the same metadata.
C6_DurableRoundTrip ==
    AllReturned =>
        /\ DOMAIN Load(file) = DOMAIN store
        /\ \A id \in DOMAIN store :
              /\ id \in DOMAIN Load(file)
              /\ Load(file)[id].page_content = store[id].page_content
              /\ Load(file)[id].metadata = store[id].metadata

\* C7: when Document Store calls run concurrently, after all of them have
\* returned the persisted state equals the in-memory state (no write is lost).
C7_WritersSerialized ==
    AllReturned => Load(file) = store

\* ---- construction on a file that something else may have damaged
MaxFile == 4

\* What docstore.json can be made of.
FileTokens ==
    {OpenBrace, CloseBrace}
        \cup {Member(p.metadata.parent_id, p) : p \in StoreParents}
        \cup {MalformedMember("h1_parent_1")}

\* No key twice (json.dump writes each key once).
DistinctKeys(content) ==
    \A i, j \in 1..Len(content) :
        (i # j /\ content[i].tok \notin {"{", "}"} /\ content[j].tok \notin {"{", "}"})
            => content[i].key # content[j].key

PersistedFiles ==
    {NoFile}
        \cup {[exists |-> TRUE, content |-> c] :
                 c \in {x \in SeqsUpTo(FileTokens, MaxFile) : DistinctKeys(x)}}

InitStoreLoad ==
    /\ ConvIdle
    /\ IngestIdle
    /\ ChunkIdle
    /\ RerankIdle
    /\ QueryIdle
    /\ FusionIdle
    /\ DedupIdle
    /\ CtxIdle
    /\ IndexIdle
    /\ file \in PersistedFiles
    /\ store = EmptyDict
    /\ data = [t \in Writers |-> EmptyDict]
    /\ pre_store = EmptyDict
    /\ wpc = [t \in Writers |-> IF t = "w1" THEN "new" ELSE "off"]

\* ParentDocumentStore.__init__, lines 19-30: an empty store, then _load.
Construct(t) ==
    /\ wpc[t] = "new"
    /\ store' = Load(file)
    /\ wpc' = [wpc EXCEPT ![t] = "idle"]
    /\ UNCHANGED <<file, data, pre_store>>
    /\ UNCHANGED notStore

NextStoreLoad == \E t \in Writers : Construct(t)

SpecStoreLoad == InitStoreLoad /\ [][NextStoreLoad]_vars

\* _load raises inside its try block: the file does not parse, or an entry of
\* the parsed object is not a document.
LoadRaises(f) ==
    /\ f.exists
    /\ \/ ~JsonWellFormed(f.content)
       \/ \E i \in 1..Len(f.content) : f.content[i].tok = "malformed member"

\* C18: when loading the persisted file fails at any point (the file does not
\* parse, or one of its entries is malformed), the constructed store is empty.
C18_CorruptFileEmptyStore ==
    (wpc["w1"] = "idle" /\ LoadRaises(file)) => store = EmptyDict

\* ---- one caller at a time, on a process that can die inside a call
\* The process is killed inside a Document Store call: the file stays as the
\* call left it (with a part of the output when killed inside json.dump); the
\* variable store keeps what memory held.
Crash(t) ==
    /\ wpc[t] \in {"save", "open", "dump"}
    /\ IF wpc[t] = "dump"
       THEN \E n \in 0..(Len(JsonDump(data[t])) - 1) :
               file' = [exists |-> TRUE,
                        content |-> WriteOver(file.content, Take(JsonDump(data[t]), n))]
       ELSE UNCHANGED file
    /\ wpc' = [wpc EXCEPT ![t] = "crashed"]
    /\ UNCHANGED <<store, data, pre_store>>
    /\ UNCHANGED notStore

NextStoreCrash ==
    \/ \E t \in Writers : AddDocument(t)
    \/ \E t \in Writers : DeleteByFileHash(t)
    \/ \E t \in Writers : Clear(t)
    \/ \E t \in Writers : SaveData(t)
    \/ \E t \in Writers : SaveOpen(t)
    \/ \E t \in Writers : SaveDump(t)
    \/ \E t \in Writers : Crash(t)
    \/ Restart

SpecStoreCrash == InitStoreSeq /\ [][NextStoreCrash]_vars

\* The step in which a write of _save fails: open raises, or json.dump stops
\* before the whole of data is in the file.
WriteFails(t) ==
    \/ wpc[t] = "open" /\ wpc'[t] # "dump"
    \/ /\ wpc[t] = "dump"
       /\ file'.content # WriteOver(file.content, JsonDump(data[t]))

\* C19: a write failure inside add_document, delete_by_file_hash or clear
\* propagates to the caller: the call ends by raising, not by returning.
C19_WriteFailurePropagates ==
    [][\A t \in Writers : WriteFails(t) => wpc'[t] = "raised"]_vars

\* C20: after a crash at any point of a mutating call, the next load gives the
\* complete store of before the call or the complete store of after it.
C20_CrashRecoversPreOrPost ==
    \A t \in Writers :
        wpc[t] = "crashed" => Load(file) \in {pre_store, store}

(***************************************************************************)
(* The keyword index: hybrid_search.py globals, rebuild_bm25_index and     *)
(* bm25_search; ingestion and reset as the routes run them                 *)
(***************************************************************************)
\* create_child_chunks: a child carries its parent's metadata, type "child"
\* and its chunk id.
ChildOf(parent, chunk_id, content) ==
    [page_content |-> content,
     metadata |-> [parent_id |-> parent.metadata.parent_id,
                   type |-> "child",
                   file_hash |-> parent.metadata.file_hash,
                   chunk_id |-> chunk_id]]

\* The two manuals that are uploaded: the parents and children the chunkers
\* make of each.
ManualParents(file_hash) ==
    IF file_hash = "h1"
    THEN <<Parent("h1_parent_0", "h1", <<"A", ",", " ", "b">>)>>
    ELSE <<Parent("h2_parent_0", "h2", <<"c">>)>>

ManualChildren(file_hash) ==
    IF file_hash = "h1"
    THEN <<ChildOf(ManualParents("h1")[1], "h1_parent_0_child_0", <<"A", ",", " ", "b">>)>>
    ELSE <<ChildOf(ManualParents("h2")[1], "h2_parent_0_child_0", <<"c">>)>>

Manuals == {"h1", "h2"}

\* The queries and result sizes of the keyword search.
Queries == {<<"A">>, <<"c">>, <<"A", " ", "b", " ", "c">>}

SearchKs == {1, 2}

\* _tokenize: lower case, every character outside [\w\s\-\.] becomes a space,
\* then split.
Punctuation == {",", ";", ":", "!", "?"}

tokenize(text) ==
    Split([i \in 1..Len(text) |->
              IF Lower(text)[i] \in Punctuation THEN " " ELSE Lower(text)[i]])

\* BM25Okapi(corpus): the index object holds the token statistics of the corpus
\* it was built from.
BM25Okapi(corpus) == [built |-> TRUE, corpus |-> corpus]

\* index.get_scores(query_tokens): one score per document of the index's
\* corpus, positive exactly when the document holds a query token (the number
\* of its tokens that are query tokens).
get_scores(index, query_tokens) ==
    [i \in 1..Len(index.corpus) |->
        Cardinality({j \in 1..Len(index.corpus[i]) :
                        index.corpus[i][j] \in Range(query_tokens)})]

\* bm25_search, lines 119-121: the indices by descending score (a stable sort:
\* ties in index order), the first k of them. Indices count from 0.
RECURSIVE ByScoreDesc(_, _)
ByScoreDesc(scores, rest) ==
    IF rest = {} THEN <<>>
    ELSE LET best == CHOOSE i \in rest :
                        \A j \in rest : scores[i] > scores[j]
                                        \/ (scores[i] = scores[j] /\ i <= j)
         IN <<best - 1>> \o ByScoreDesc(scores, rest \ {best})

TopK(scores, k) == Take(ByScoreDesc(scores, 1..Len(scores)), k)

\* bm25_search without the test score > 0.
RECURSIVE MapResultsAnyScore(_, _, _)
MapResultsAnyScore(top_k, scores, doc_map) ==
    IF top_k = <<>> THEN <<>>
    ELSE LET idx == top_k[1]
             rest == MapResultsAnyScore(Tail(top_k), scores, doc_map)
         IN IF idx \in DOMAIN doc_map
            THEN <<[doc |-> doc_map[idx], score |-> scores[idx + 1]]>> \o rest
            ELSE rest

\* bm25_search, lines 123-126: the pairs (document, score) of the top indices
\* that the map holds and whose score is positive.
RECURSIVE MapResults(_, _, _)
MapResults(top_k, scores, doc_map) ==
    IF top_k = <<>> THEN <<>>
    ELSE LET idx == top_k[1]
             rest == MapResults(Tail(top_k), scores, doc_map)
         IN IF idx \in DOMAIN doc_map /\ scores[idx + 1] > 0
            THEN <<[doc |-> doc_map[idx], score |-> scores[idx + 1]]>> \o rest
            ELSE rest

\* vector_db.get(where={"type": "child"})
ChildrenOf(db) == SelectSeq(db, LAMBDA d : MetaGet(d, "type") = "child")

\* _is_document_indexed
IsDocumentIndexed(file_hash) ==
    \E i \in 1..Len(vector_db) : MetaGet(vector_db[i], "file_hash") = file_hash

\* _store_documents with parent ids that count on from the stored parents.
RECURSIVE PutAllCountingOn(_, _)
PutAllCountingOn(d, parents) ==
    IF parents = <<>> THEN d
    ELSE PutAllCountingOn(
            Put(d, [hash8 |-> parents[1].metadata.parent_id.hash8,
                    counter |-> Cardinality(DOMAIN d)], parents[1]),
            Tail(parents))

\* _store_documents, lines 68-69: add_document for every parent
RECURSIVE PutAll(_, _)
PutAll(d, parents) ==
    IF parents = <<>> THEN d
    ELSE PutAll(Put(d, parents[1].metadata.parent_id, parents[1]), Tail(parents))

\* A server process just started on what is on disk
InitIndex ==
    /\ ConvIdle
    /\ IngestIdle
    /\ ChunkIdle
    /\ RerankIdle
    /\ QueryIdle
    /\ FusionIdle
    /\ DedupIdle
    /\ CtxIdle
    /\ PersistIdle
    /\ store = EmptyDict
    /\ vector_db = <<>>
    /\ pkl = NoPickle
    /\ rag_system = TRUE
    /\ IndexGlobalsFresh

\* POST /ingest: ingest_pdf (force = False) and, on success, a new rag_system
UploadManual ==
    /\ \E file_hash \in Manuals :
          IF IsDocumentIndexed(file_hash)
          THEN UNCHANGED <<store, file, vector_db, rag_system>>
          ELSE /\ store' = PutAll(store, ManualParents(file_hash))
               /\ file' = [exists |-> TRUE, content |-> JsonDump(store')]
               /\ vector_db' = vector_db \o ManualChildren(file_hash)
               /\ rag_system' = TRUE
    /\ UNCHANGED <<bm25_index, bm25_corpus, bm25_doc_map, pkl, rpc, r_documents, r_idx,
                   spc, s_query, s_k, s_index, s_scores, s_results>>
    /\ UNCHANGED notIndex

\* DELETE /reset: clear_database, get_docstore().clear(), rag_system = None
ResetDatabase ==
    /\ vector_db' = <<>>
    /\ store' = EmptyDict
    /\ file' = [exists |-> TRUE, content |-> JsonDump(EmptyDict)]
    /\ rag_system' = FALSE
    /\ UNCHANGED <<bm25_index, bm25_corpus, bm25_doc_map, pkl, rpc, r_documents, r_idx,
                   spc, s_query, s_k, s_index, s_scores, s_results>>
    /\ UNCHANGED notIndex

\* rebuild_bm25_index(), lines 65-81: the children are fetched; with none the
\* call returns False
RebuildFetch ==
    /\ rpc = "idle"
    /\ r_documents' = ChildrenOf(vector_db)
    /\ rpc' = IF ChildrenOf(vector_db) = <<>> THEN "idle" ELSE "corpus"
    /\ UNCHANGED <<vector_db, rag_system, bm25_index, bm25_corpus, bm25_doc_map, pkl,
                   r_idx, spc, s_query, s_k, s_index, s_scores, s_results>>
    /\ UNCHANGED <<store, file>>
    /\ UNCHANGED notIndex

\* line 85
RebuildClearCorpus ==
    /\ rpc = "corpus"
    /\ bm25_corpus' = <<>>
    /\ rpc' = "map"
    /\ UNCHANGED <<vector_db, rag_system, bm25_index, bm25_doc_map, pkl, r_documents,
                   r_idx, spc, s_query, s_k, s_index, s_scores, s_results>>
    /\ UNCHANGED <<store, file>>
    /\ UNCHANGED notIndex

\* line 86
RebuildClearMap ==
    /\ rpc = "map"
    /\ bm25_doc_map' = EmptyDict
    /\ r_idx' = 0
    /\ rpc' = "fill"
    /\ UNCHANGED <<vector_db, rag_system, bm25_index, bm25_corpus, pkl, r_documents,
                   spc, s_query, s_k, s_index, s_scores, s_results>>
    /\ UNCHANGED <<store, file>>
    /\ UNCHANGED notIndex

\* lines 88-91: one turn of the loop
RebuildFill ==
    /\ rpc = "fill"
    /\ r_idx < Len(r_documents)
    /\ Len(bm25_corpus) < MaxCorpus
    /\ bm25_corpus' = Append(bm25_corpus, tokenize(r_documents[r_idx + 1].page_content))
    /\ bm25_doc_map' = Put(bm25_doc_map, r_idx, r_documents[r_idx + 1])
    /\ r_idx' = r_idx + 1
    /\ UNCHANGED <<vector_db, rag_system, bm25_index, pkl, rpc, r_documents,
                   spc, s_query, s_k, s_index, s_scores, s_results>>
    /\ UNCHANGED <<store, file>>
    /\ UNCHANGED notIndex

\* line 93
RebuildIndex ==
    /\ rpc = "fill"
    /\ r_idx = Len(r_documents)
    /\ bm25_index' = BM25Okapi(bm25_corpus)
    /\ rpc' = "save"
    /\ UNCHANGED <<vector_db, rag_system, bm25_corpus, bm25_doc_map, pkl, r_documents,
                   r_idx, spc, s_query, s_k, s_index, s_scores, s_results>>
    /\ UNCHANGED <<store, file>>
    /\ UNCHANGED notIndex

\* lines 95-97: _save_bm25_index pickles the three globals; the call returns
RebuildSave ==
    /\ rpc = "save"
    /\ pkl' = [exists |-> TRUE, index |-> bm25_index, corpus |-> bm25_corpus,
               doc_map |-> bm25_doc_map]
    /\ rpc' = "idle"
    /\ r_documents' = <<>>
    /\ r_idx' = 0
    /\ UNCHANGED <<vector_db, rag_system, bm25_index, bm25_corpus, bm25_doc_map,
                   spc, s_query, s_k, s_index, s_scores, s_results>>
    /\ UNCHANGED <<store, file>>
    /\ UNCHANGED notIndex

\* bm25_search, lines 108-116, called by a chat route (which needs rag_system):
\* with no index in memory the pickle is loaded, or [] is returned when there
\* is none; then the scores are taken from the index
SearchScore ==
    /\ rag_system
    /\ spc \in {"idle", "done"}
    /\ \E query \in Queries, k \in SearchKs :
          /\ s_query' = query
          /\ s_k' = k
          /\ IF bm25_index = NoIndex /\ ~pkl.exists
             THEN /\ spc' = "done"
                  /\ s_index' = NoIndex
                  /\ s_scores' = <<>>
                  /\ s_results' = <<>>
                  /\ UNCHANGED <<bm25_index, bm25_corpus, bm25_doc_map>>
             ELSE /\ bm25_index' = IF bm25_index = NoIndex THEN pkl.index ELSE bm25_index
                  /\ bm25_corpus' = IF bm25_index = NoIndex THEN pkl.corpus ELSE bm25_corpus
                  /\ bm25_doc_map' = IF bm25_index = NoIndex THEN pkl.doc_map
                                     ELSE bm25_doc_map
                  /\ s_index' = bm25_index'
                  /\ s_scores' = get_scores(bm25_index', tokenize(query))
                  /\ s_results' = <<>>
                  /\ spc' = "scored"
    /\ UNCHANGED <<vector_db, rag_system, pkl, rpc, r_documents, r_idx>>
    /\ UNCHANGED <<store, file>>
    /\ UNCHANGED notIndex

\* bm25_search, lines 119-128: the top k scores are mapped to documents through
\* _bm25_doc_map as it is now; the call returns
SearchMap ==
    /\ spc = "scored"
    /\ s_results' = MapResults(TopK(s_scores, s_k), s_scores, bm25_doc_map)
    /\ spc' = "done"
    /\ UNCHANGED <<vector_db, rag_system, bm25_index, bm25_corpus, bm25_doc_map, pkl,
                   rpc, r_documents, r_idx, s_query, s_k, s_index, s_scores>>
    /\ UNCHANGED <<store, file>>
    /\ UNCHANGED notIndex

\* The server is stopped between calls and started again: the globals are as
\* after import, the Document Store is loaded from its file, lifespan sets
\* rag_system.
RestartServer ==
    /\ rpc = "idle"
    /\ spc \in {"idle", "done"}
    /\ bm25_index' = NoIndex
    /\ bm25_corpus' = <<>>
    /\ bm25_doc_map' = EmptyDict
    /\ spc' = "idle"
    /\ s_query' = <<>>
    /\ s_k' = 0
    /\ s_index' = NoIndex
    /\ s_scores' = <<>>
    /\ s_results' = <<>>
    /\ store' = Load(file)
    /\ rag_system' = TRUE
    /\ UNCHANGED <<vector_db, pkl, rpc, r_documents, r_idx, file>>
    /\ UNCHANGED notIndex

\* The steps of a rebuild once it has been called.
RebuildContinues ==
    RebuildClearCorpus \/ RebuildClearMap \/ RebuildFill \/ RebuildIndex \/ RebuildSave

NextIndex ==
    \/ UploadManual
    \/ ResetDatabase
    \/ RebuildFetch
    \/ RebuildClearCorpus
    \/ RebuildClearMap
    \/ RebuildFill
    \/ RebuildIndex
    \/ RebuildSave
    \/ SearchScore
    \/ SearchMap
    \/ RestartServer

SpecIndex == InitIndex /\ [][NextIndex]_vars

\* get_docstore().delete_by_file_hash(file_hash): the parents of the file
\* leave the Document Store, which is saved when something was deleted; the
\* embedding store and the keyword index are not touched.
DeleteParentsByFileHash ==
    /\ \E file_hash \in Manuals :
          LET to_delete == {id \in DOMAIN store :
                               MetaGet(store[id], "file_hash") = file_hash}
          IN /\ store' = Restrict(store, DOMAIN store \ to_delete)
             /\ file' = IF to_delete # {}
                        THEN [exists |-> TRUE, content |-> JsonDump(store')]
                        ELSE file
    /\ UNCHANGED <<vector_db, rag_system, bm25_index, bm25_corpus, bm25_doc_map, pkl,
                   rpc, r_documents, r_idx, spc, s_query, s_k, s_index, s_scores,
                   s_results>>
    /\ UNCHANGED notIndex

\* Ingest, delete by hash, reset, restart, rebuild and search in any order.
NextLifecycle == NextIndex \/ DeleteParentsByFileHash

SpecLifecycle == InitIndex /\ [][NextLifecycle]_vars

\* The child chunks the embedding store and the keyword index hold.
IndexedChildren ==
    Range(ChildrenOf(vector_db)) \cup {bm25_doc_map[i] : i \in DOMAIN bm25_doc_map}

\* C24: every child chunk held in the embedding store or the keyword index
\* has a parent id that resolves to a parent in the Document Store.
C24_ParentsOfChildrenExist ==
    \A child \in IndexedChildren : MetaGet(child, "parent_id") \in DOMAIN store

\* The same system where every call that has begun runs to its end and chat
\* requests keep arriving; nothing obliges anyone to upload, reset, restart or
\* call rebuild_bm25_index.
SpecIndexFair ==
    /\ InitIndex
    /\ [][NextIndex]_vars
    /\ WF_vars(RebuildContinues)
    /\ WF_vars(SearchScore)
    /\ WF_vars(SearchMap)

(***************************************************************************)
(* Claims on the keyword index (SpecIndex, SpecIndexFair)                  *)
(***************************************************************************)
\* The top-k indices with a positive score, in rank order.
Hits == SelectSeq(TopK(s_scores, s_k), LAMBDA idx : s_scores[idx + 1] > 0)

\* C26: a call of bm25_search(query, k) returns at most k pairs (chunk, score),
\* in non-increasing order of score, every score strictly positive.
C26_SearchResultShape ==
    spc = "done" =>
        /\ Len(s_results) <= s_k
        /\ \A i \in 1..Len(s_results) : s_results[i].score > 0
        /\ \A i \in 1..Len(s_results), j \in 1..Len(s_results) :
              i < j => s_results[i].score >= s_results[j].score

\* Two chunks matched; the one later in the corpus scored higher and is
\* returned first.
C26_Witness ==
    /\ spc = "done"
    /\ Len(s_results) = 2
    /\ s_results[1].score > s_results[2].score
    /\ Len(s_scores) = 2
    /\ s_scores[1] < s_scores[2]

\* C5: a keyword search that ran while the index may be rebuilt returns what
\* one snapshot gives: every top-k index with a positive score is mapped, in
\* rank order, to the chunk whose tokens the scored index holds at that index
\* (index and id-to-chunk map of the same build, never a half-built map).
C5_ConsistentSnapshot ==
    (spc = "done" /\ s_index # NoIndex) =>
        /\ Len(s_results) = Len(Hits)
        /\ \A n \in 1..Len(Hits) :
              /\ s_results[n].score = s_scores[Hits[n] + 1]
              /\ tokenize(s_results[n].doc.page_content) = s_index.corpus[Hits[n] + 1]

AllChildren == Range(ManualChildren("h1")) \cup Range(ManualChildren("h2"))

InVectorDb(c) == c \in Range(vector_db)

\* Keyword search is served from an index that holds the child c.
KeywordIndexHolds(c) ==
    /\ bm25_index # NoIndex
    /\ \E idx \in DOMAIN bm25_doc_map :
          /\ bm25_doc_map[idx] = c
          /\ idx + 1 <= Len(bm25_index.corpus)
          /\ bm25_index.corpus[idx + 1] = tokenize(c.page_content)

\* C8: every child an ingest has added is eventually held by the index that
\* keyword search is served from (unless a reset removes the child first).
C8_IndexFollowsIngest ==
    \A c \in AllChildren :
        InVectorDb(c) ~> (KeywordIndexHolds(c) \/ ~InVectorDb(c))

\* C9: when reset returns (no rebuild and no search being in flight), the
\* Document Store is empty in memory and on disk and the keyword index is empty
\* in memory and on disk.
C9_ResetClearsBoth ==
    [][(ResetDatabase /\ rpc = "idle" /\ spc \in {"idle", "done"}) =>
         /\ store' = EmptyDict
         /\ (Load(file) = EmptyDict)'
         /\ bm25_index' = NoIndex
         /\ bm25_doc_map' = EmptyDict
         /\ (~pkl.exists \/ pkl.doc_map = EmptyDict)']_vars

(***************************************************************************)
(* reranker.py: get_reranker and rerank_results                            *)
(***************************************************************************)
MaxTopK == 4

\* The candidates handed to the reranker and the scores predict can give.
RerankDocs == FusionDocs
RerankScores == {-1, 0, 1}
TopKs == 1..MaxTopK

Min(a, b) == IF a < b THEN a ELSE b

\* What reranker.predict(pairs) can do on n pairs: throw, or score each pair.
PredictOutcomes(n) ==
    {[threw |-> TRUE, scores |-> <<>>]}
        \cup {[threw |-> FALSE, scores |-> sc] : sc \in [1..n -> RerankScores]}

\* get_reranker: the model is loaded once, on the first call that can load it.
get_reranker(current, load) ==
    IF current = "None"
    THEN IF load = "ok" THEN "CrossEncoder" ELSE "None"
    ELSE current

\* list(zip(documents, scores))
ScoredDocs(documents, scores) ==
    [i \in 1..Len(documents) |-> [doc |-> documents[i], score |-> scores[i]]]

\* The try block of rerank_results: predict, sort, cut at actual_k.
RerankTry(documents, top_k, predict) ==
    IF predict.threw THEN [raised |-> TRUE, value |-> <<>>]
    ELSE LET scored_docs == SortedByScore(<<>>, ScoredDocs(documents, predict.scores), 1)
             actual_k == Min(top_k, Len(scored_docs))
         IN [raised |-> FALSE,
             value |-> [i \in 1..actual_k |-> scored_docs[i].doc]]

\* rerank_results without its except clause.
rerank_results_no_except(documents, top_k, model, predict) ==
    IF documents = <<>> THEN [raised |-> FALSE, value |-> <<>>]
    ELSE IF model = "None" THEN [raised |-> FALSE, value |-> Take(documents, top_k)]
    ELSE RerankTry(documents, top_k, predict)

\* rerank_results, given what get_reranker returned and what predict does.
rerank_results(documents, top_k, model, predict) ==
    IF documents = <<>> THEN [raised |-> FALSE, value |-> <<>>]
    ELSE IF model = "None" THEN [raised |-> FALSE, value |-> Take(documents, top_k)]
    ELSE LET body == RerankTry(documents, top_k, predict)
         IN IF body.raised
            THEN [raised |-> FALSE,
                  value |-> Take(documents, Min(top_k, Len(documents)))]
            ELSE body

\* predict is called when there are documents and a model to call it on.
PredictCalled(documents, model, load) ==
    documents # <<>> /\ get_reranker(model, load) # "None"

InitRerank ==
    /\ ConvIdle
    /\ IngestIdle
    /\ ChunkIdle
    /\ FusionIdle
    /\ DedupIdle
    /\ CtxIdle
    /\ StoreIdle
    /\ IndexIdle
    /\ QueryIdle
    /\ kpc = "input"
    /\ rr_documents \in SeqsUpTo(RerankDocs, MaxCands)
    /\ rr_top_k \in TopKs
    /\ reranker \in {"None", "CrossEncoder"}
    /\ rr_load \in IF reranker = "None" THEN {"ok", "fails"} ELSE {"ok"}
    /\ rr_predict \in IF PredictCalled(rr_documents, reranker, rr_load)
                      THEN PredictOutcomes(Len(rr_documents))
                      ELSE {[threw |-> FALSE, scores |-> <<>>]}
    /\ reranked = <<>>
    /\ rr_raised = FALSE

\* A call of rerank_results(query, documents, top_k).
RerankResults ==
    /\ kpc = "input"
    /\ reranker' = IF rr_documents = <<>> THEN reranker
                   ELSE get_reranker(reranker, rr_load)
    /\ LET r == rerank_results(rr_documents, rr_top_k, reranker', rr_predict)
       IN /\ reranked' = r.value
          /\ rr_raised' = r.raised
    /\ kpc' = "done"
    /\ UNCHANGED <<rr_load, rr_predict, rr_documents, rr_top_k>>
    /\ UNCHANGED notRerank

NextRerank == RerankResults

SpecRerank == InitRerank /\ [][NextRerank]_vars

\* The scorer was available and scored every candidate.
ScorerSucceeded ==
    /\ kpc = "done"
    /\ rr_documents # <<>>
    /\ reranker = "CrossEncoder"
    /\ ~rr_predict.threw

\* The place of candidate m in the order "score descending, input order among
\* equal scores": one more than the number of candidates ahead of it.
RankOf(m) ==
    1 + Cardinality({j \in 1..Len(rr_documents) :
                        \/ rr_predict.scores[j] > rr_predict.scores[m]
                        \/ /\ rr_predict.scores[j] = rr_predict.scores[m]
                           /\ j < m})

\* C15: when the scorer succeeds, rerank_results returns exactly
\* min(top_k, number of candidates) candidates, in score-descending order with
\* equal scores in input order, and raises nothing, also when top_k exceeds
\* the number of candidates.
C15_OrderedAndClamped ==
    ScorerSucceeded =>
        /\ ~rr_raised
        /\ Len(reranked) = Min(rr_top_k, Len(rr_documents))
        /\ \A m \in 1..Len(rr_documents) :
              RankOf(m) <= Len(reranked) => reranked[RankOf(m)] = rr_documents[m]

\* More candidates are asked for than there are, two of the three share the
\* top score, and the order changes.
C15_Witness ==
    /\ ScorerSucceeded
    /\ Len(rr_documents) = 3
    /\ rr_top_k > 3
    /\ rr_predict.scores = <<0, 1, 1>>
    /\ reranked = <<rr_documents[2], rr_documents[3], rr_documents[1]>>
    /\ reranked # rr_documents

\* The scorer could not be loaded, or threw while scoring.
ScorerFailed ==
    /\ kpc = "done"
    /\ rr_documents # <<>>
    /\ reranker = "None" \/ rr_predict.threw

\* C16: when the scorer cannot be loaded or throws during scoring,
\* rerank_results returns the first top_k candidates in their input order
\* and raises nothing.
C16_DegradesToInputOrder ==
    ScorerFailed =>
        /\ ~rr_raised
        /\ reranked = SubSeq(rr_documents, 1, Min(rr_top_k, Len(rr_documents)))

\* The loaded scorer throws on three candidates of which two are asked for.
C16_Witness ==
    /\ ScorerFailed
    /\ reranker = "CrossEncoder"
    /\ rr_predict.threw
    /\ Len(rr_documents) = 3
    /\ rr_top_k = 2
    /\ reranked = <<rr_documents[1], rr_documents[2]>>
    /\ ~rr_raised

(***************************************************************************)
(* ParentChildRAG.query: hybrid search, deduplication, reranking, answer   *)
(***************************************************************************)
QueryDocs == FusionDocs \cup ImageDocs

\* Lists without repeats.
DistinctLists(S, n) ==
    {l \in SeqsUpTo(S, n) : \A i, j \in 1..Len(l) : i # j => l[i] # l[j]}

\* What vector_db.similarity_search can do: throw, or return child chunks; a
\* chunk the embedding store holds twice (a forced re-ingestion adds the
\* children again) can be returned twice.
VectorOutcomes ==
    {[threw |-> TRUE, docs |-> <<>>]}
        \cup {[threw |-> FALSE, docs |-> l] : l \in SeqsUpTo(FusionDocs, MaxList)}

\* The keyword index: missing or unloadable, or loaded and giving hits.
Bm25Outcomes ==
    {[loadable |-> FALSE, hits |-> <<>>]}
        \cup {[loadable |-> TRUE, hits |-> BM25Pairs(l)] :
                 l \in DistinctLists(FusionDocs, MaxList)}

\* The scores the cross-encoder gives the candidates.
QueryScorings ==
    { [d \in QueryDocs |-> 0],
      [d \in QueryDocs |-> IF d.page_content = <<"c">> THEN 1 ELSE 0] }

\* The reranker: not loadable, throwing in predict, or scoring.
RerankerOutcomes ==
    {[model |-> "None", threw |-> FALSE, score |-> <<>>],
     [model |-> "CrossEncoder", threw |-> TRUE, score |-> <<>>]}
        \cup {[model |-> "CrossEncoder", threw |-> FALSE, score |-> f] :
                 f \in QueryScorings}

\* hybrid_search lines 195-200 without the except clause.
VectorSearchNoExcept(outcome) ==
    [raised |-> outcome.threw, value |-> outcome.docs]

\* hybrid_search lines 195-200: a failing vector search gives no results.
VectorSearch(outcome) ==
    [raised |-> FALSE, value |-> IF outcome.threw THEN <<>> ELSE outcome.docs]

\* bm25_search lines 108-111 and 130-132: no index, no results.
Bm25Search(idx) == IF idx.loadable THEN idx.hits ELSE <<>>

\* _no_results_response
NoResultsResponse == [answered |-> FALSE, sources |-> <<>>]

\* reranker.predict on the candidates of this query.
QueryPredict(candidates, r) ==
    [threw |-> r.threw,
     scores |-> IF r.threw \/ r.model = "None" THEN <<>>
                ELSE [i \in 1..Len(candidates) |-> r.score[candidates[i]]]]

\* query lines 76-80: rerank_results under try/except.
QueryRerankResults(candidates, k, r) ==
    LET res == rerank_results(candidates, k, r.model, QueryPredict(candidates, r))
    IN IF res.raised THEN Take(candidates, k) ELSE res.value

InitQuery ==
    /\ ConvIdle
    /\ IngestIdle
    /\ ChunkIdle
    /\ FusionIdle
    /\ DedupIdle
    /\ CtxIdle
    /\ StoreIdle
    /\ IndexIdle
    /\ RerankIdle
    /\ qpc = "start"
    /\ q_k \in {1, 2}
    /\ q_child_k \in {1, 2}
    /\ q_visual \in BOOLEAN
    /\ q_vector \in VectorOutcomes
    /\ q_bm25 \in Bm25Outcomes
    /\ q_images \in IF q_visual THEN DistinctLists(ImageDocs, 1) ELSE {<<>>}
    /\ q_reranker \in RerankerOutcomes
    /\ q_child_docs = <<>>
    /\ q_candidates = <<>>
    /\ q_reranked = <<>>
    /\ q_response = NoResultsResponse
    /\ q_raised = FALSE

\* query lines 54-64: Stage 1, and the early return when nothing was found.
QuerySearch ==
    /\ qpc = "start"
    /\ LET v == VectorSearch(q_vector) IN
       IF v.raised
       THEN /\ q_raised' = TRUE
            /\ qpc' = "returned"
            /\ UNCHANGED <<q_child_docs, q_response>>
       ELSE LET found == hybrid_search(v.value, Bm25Search(q_bm25), q_child_k * 2,
                                       q_visual, q_images)
            IN /\ q_child_docs' = found
               /\ q_response' = NoResultsResponse
               /\ qpc' = IF found = <<>> THEN "returned" ELSE "searched"
               /\ UNCHANGED q_raised
    /\ UNCHANGED <<q_k, q_child_k, q_visual, q_vector, q_bm25, q_images, q_reranker,
                   q_candidates, q_reranked>>
    /\ UNCHANGED notQuery

\* query lines 69-72: deduplicate, keep child_k candidates.
QueryDeduplicate ==
    /\ qpc = "searched"
    /\ q_candidates' = Take(deduplicate_aggressively(q_child_docs), q_child_k)
    /\ qpc' = "deduplicated"
    /\ UNCHANGED <<q_k, q_child_k, q_visual, q_vector, q_bm25, q_images, q_reranker,
                   q_child_docs, q_reranked, q_response, q_raised>>
    /\ UNCHANGED notQuery

\* query lines 76-80: Stage 3.
QueryRerank ==
    /\ qpc = "deduplicated"
    /\ q_reranked' = QueryRerankResults(q_candidates, q_k, q_reranker)
    /\ qpc' = "reranked"
    /\ UNCHANGED <<q_k, q_child_k, q_visual, q_vector, q_bm25, q_images, q_reranker,
                   q_child_docs, q_candidates, q_response, q_raised>>
    /\ UNCHANGED notQuery

\* query lines 85-103: context, answer of the language model, the returned dict.
QueryAnswer ==
    /\ qpc = "reranked"
    /\ q_response' = [answered |-> TRUE, sources |-> q_reranked]
    /\ qpc' = "returned"
    /\ UNCHANGED <<q_k, q_child_k, q_visual, q_vector, q_bm25, q_images, q_reranker,
                   q_child_docs, q_candidates, q_reranked, q_raised>>
    /\ UNCHANGED notQuery

NextQuery == QuerySearch \/ QueryDeduplicate \/ QueryRerank \/ QueryAnswer

SpecQuery == InitQuery /\ [][NextQuery]_vars

\* What each retrieval signal contributes when it is there.
VectorSignal == IF q_vector.threw THEN <<>> ELSE q_vector.docs
KeywordSignal ==
    IF q_bm25.loadable
    THEN [i \in 1..Len(q_bm25.hits) |-> q_bm25.hits[i][1]]
    ELSE <<>>

IsChild(doc) == doc.metadata.type = "child"

QueryStageOrder ==
    {<<"start", "searched">>, <<"searched", "deduplicated">>,
     <<"deduplicated", "reranked">>, <<"reranked", "returned">>,
     <<"start", "returned">>}

MaxPages == 3

UpperCase ==
    {"A", "B", "C", "D", "E", "F", "G", "H", "I", "J", "K", "L", "M",
     "N", "O", "P", "Q", "R", "S", "T", "U", "V", "W", "X", "Y", "Z"}

LowerCase ==
    {"a", "b", "c", "d", "e", "f", "g", "h", "i", "j", "k", "l", "m",
     "n", "o", "p", "q", "r", "s", "t", "u", "v", "w", "x", "y", "z"}

Digits == {"0", "1", "2", "3", "4", "5", "6", "7", "8", "9"}

\* str.isdigit()
IsDigitString(s) == s # <<>> /\ \A i \in 1..Len(s) : s[i] \in Digits

\* The number of characters at the start of s that are in the set C.
RECURSIVE LeadingIn(_, _)
LeadingIn(s, C) ==
    IF s = <<>> \/ s[1] \notin C THEN 0 ELSE 1 + LeadingIn(Tail(s), C)

Drop(s, n) == SubSeq(s, n + 1, Len(s))

\* [A-Z][a-zA-Z\s\-\&]{3,} up to the end of the line
IsTitle(s) ==
    /\ Len(s) >= 4
    /\ s[1] \in UpperCase
    /\ \A i \in 2..Len(s) : s[i] \in UpperCase \cup LowerCase \cup {" ", "\n", "-", "&"}

\* re.match(header_pattern, line_stripped): group 1 is one or two digits, an
\* optional dot and whitespace; group 2 is the title.
HeaderMatch(line) ==
    LET d == LeadingIn(line, Digits)
        afterDigits == Drop(line, d)
        dot == IF afterDigits # <<>> /\ afterDigits[1] = "." THEN 1 ELSE 0
        afterDot == Drop(afterDigits, dot)
        sp == LeadingIn(afterDot, {" ", "\n"})
        rest == Drop(afterDot, sp)
    IN IF d = 0
       THEN [matched |-> IsTitle(line), code |-> <<"u", "n", "k", "n", "o", "w", "n">>,
             title |-> Strip(line)]
       ELSE [matched |-> d <= 2 /\ IsTitle(rest),
             code |-> SubSeq(line, 1, d + dot),
             title |-> Strip(rest)]

HeaderLengthLimit == 60       \* len(line_stripped) < 60

\* "\n".join(lines)
RECURSIVE JoinNewline(_)
JoinNewline(lines) ==
    IF lines = <<>> THEN <<>>
    ELSE IF Len(lines) = 1 THEN lines[1]
    ELSE lines[1] \o <<"\n">> \o JoinNewline(Tail(lines))

\* "\n\n".join of the page texts, then split('\n'): the lines of the pages
\* with an empty line between two pages.
RECURSIVE FullTextLines(_)
FullTextLines(pages) ==
    IF pages = <<>> THEN <<>>
    ELSE IF Len(pages) = 1 THEN pages[1]
    ELSE pages[1] \o <<<<>>>> \o FullTextLines(Tail(pages))

\* content_to_page: the last page that holds the stripped line; 0 when none.
ContentToPage(pages, line_stripped) ==
    LET holding == {n \in 1..Len(pages) :
                       \E i \in 1..Len(pages[n]) : Strip(pages[n][i]) = line_stripped}
    IN IF line_stripped = <<>> \/ holding = {} THEN 0
       ELSE CHOOSE n \in holding : \A m \in holding : m <= n

\* sorted(current_pages); the empty list stands for "unknown"
RECURSIVE SortedPages(_)
SortedPages(S) ==
    IF S = {} THEN <<>>
    ELSE LET lo == CHOOSE n \in S : \A m \in S : n <= m
         IN <<lo>> \o SortedPages(S \ {lo})

\* lines 95-96 and 107-108: the section that is closed.
ClosedSection(st) ==
    [section_title |-> st.current_title,
     section_text |-> JoinNewline(st.current_section),
     section_code |-> st.current_code,
     page_numbers |-> SortedPages(st.current_pages)]

\* The header branch without the comparison with last_header.
SplitLineNoCollapse(st, line, pages) ==
    LET line_stripped == Strip(line)
        page == ContentToPage(pages, line_stripped)
        tracked == IF page = 0 THEN st.current_pages ELSE st.current_pages \cup {page}
        match == HeaderMatch(line_stripped)
    IN IF IsDigitString(line_stripped) THEN st
       ELSE IF match.matched /\ Len(line_stripped) < HeaderLengthLimit
       THEN [sections |-> IF st.current_section # <<>>
                            THEN Append(st.sections,
                                        ClosedSection([st EXCEPT !.current_pages = tracked]))
                            ELSE st.sections,
             current_title |-> match.title,
             current_section |-> <<>>,
             current_code |-> match.code,
             current_pages |-> {},
             last_header |-> match.title]
       ELSE [st EXCEPT !.current_pages = tracked,
                       !.current_section = IF line_stripped # <<>>
                                           THEN Append(@, line) ELSE @]

\* One turn of the loop of _split_by_headers, lines 79-104.
SplitLine(st, line, pages) ==
    LET line_stripped == Strip(line)
        page == ContentToPage(pages, line_stripped)
        tracked == IF page = 0 THEN st.current_pages ELSE st.current_pages \cup {page}
        match == HeaderMatch(line_stripped)
    IN IF IsDigitString(line_stripped) THEN st
       ELSE IF match.matched /\ Len(line_stripped) < HeaderLengthLimit
       THEN IF match.title = st.last_header
            THEN [st EXCEPT !.current_pages = tracked]
            ELSE [sections |-> IF st.current_section # <<>>
                                 THEN Append(st.sections,
                                             ClosedSection([st EXCEPT !.current_pages = tracked]))
                                 ELSE st.sections,
                  current_title |-> match.title,
                  current_section |-> <<>>,
                  current_code |-> match.code,
                  current_pages |-> {},
                  last_header |-> match.title]
       ELSE [st EXCEPT !.current_pages = tracked,
                       !.current_section = IF line_stripped # <<>>
                                           THEN Append(@, line) ELSE @]

RECURSIVE SplitLoop(_, _, _, _)
SplitLoop(st, lines, pos, pages) ==
    IF pos > Len(lines) THEN st
    ELSE SplitLoop(SplitLine(st, lines[pos], pages), lines, pos + 1, pages)

\* lines 72-77
SplitStart ==
    [sections |-> <<>>,
     current_title |-> <<"G", "e", "n", "e", "r", "a", "l">>,
     current_section |-> <<>>,
     current_code |-> <<"u", "n", "k", "n", "o", "w", "n">>,
     current_pages |-> {},
     last_header |-> <<>>]

\* _split_by_headers(full_text, pages)
split_by_headers(pages) ==
    LET st == SplitLoop(SplitStart, FullTextLines(pages), 1, pages)
    IN IF st.current_section # <<>>
       THEN Append(st.sections, ClosedSection(st))
       ELSE st.sections

MinParentLength == 100        \* len(section_text.strip()) < 100: continue

\* parent_id = f"{file_hash[:8]}_parent_{parent_id_counter}"
ParentId(file_hash, parent_id_counter) ==
    [hash8 |-> Take(file_hash, 8), counter |-> parent_id_counter]

\* create_parent_chunks without the length test.
ParentsOfKeepingAll(secs, pos, file_hash, acc) ==
    [i \in 1..Len(secs) |->
        [page_content |-> secs[i].section_text,
         metadata |-> [parent_id |-> ParentId(file_hash, i - 1),
                       type |-> "parent",
                       file_hash |-> file_hash,
                       section_title |-> secs[i].section_title,
                       section_code |-> secs[i].section_code,
                       page_numbers |-> secs[i].page_numbers,
                       char_count |-> Len(secs[i].section_text)]]]

\* The loop of create_parent_chunks, lines 26-48; the counter is Len(acc).
RECURSIVE ParentsOf(_, _, _, _)
ParentsOf(secs, pos, file_hash, acc) ==
    IF pos > Len(secs) THEN acc
    ELSE IF Len(Strip(secs[pos].section_text)) < MinParentLength
    THEN ParentsOf(secs, pos + 1, file_hash, acc)
    ELSE ParentsOf(secs, pos + 1, file_hash,
            Append(acc,
                [page_content |-> secs[pos].section_text,
                 metadata |-> [parent_id |-> ParentId(file_hash, Len(acc)),
                               type |-> "parent",
                               file_hash |-> file_hash,
                               section_title |-> secs[pos].section_title,
                               section_code |-> secs[pos].section_code,
                               page_numbers |-> secs[pos].page_numbers,
                               char_count |-> Len(secs[pos].section_text)]]))

create_parent_chunks(pages, file_hash) ==
    ParentsOf(split_by_headers(pages), 1, file_hash, <<>>)

\* A line of n copies of one character.
Body(c, n) == [i \in 1..n |-> c]

\* The pages of the chunking specification: text blocks as extract_text_pages
\* gives them, one block per line.
EngineHeader == <<"E", "n", "g", "i", "n", "e", " ", "C", "o", "o", "l", "i", "n", "g", " ", "S", "y", "s", "t", "e", "m">>
NumberedEngineHeader == <<"1", ".", " ", "E", "n", "g", "i", "n", "e", " ", "C", "o", "o", "l", "i", "n", "g", " ", "S", "y", "s", "t", "e", "m">>
BrakeHeader == <<"B", "r", "a", "k", "e", " ", "H", "y", "d", "r", "a", "u", "l", "i", "c", " ", "C", "i", "r", "c", "u", "i", "t">>

ChunkPages ==
    { <<NumberedEngineHeader, Body("x", 100)>>,      \* a section of 100 characters
      <<EngineHeader, Body("y", 60)>>,               \* the running header again
      <<BrakeHeader, Body("z", 30)>>,                \* a section under 100 characters
      <<BrakeHeader>>,                               \* a header and nothing under it
      <<<<"1", "2">>, Body("w", 50), Body("v", 50)>>,  \* a page number, two blocks
      <<Body(" ", 40) \o Body("u", 70)>> }           \* 110 characters, 70 stripped

\* A sha256 hex digest cut to the characters that matter here.
ChunkFileHashes == { <<"0", "1", "2", "3", "4", "5", "6", "7", "8", "9", "a", "b">> }

InitChunk ==
    /\ ConvIdle
    /\ IngestIdle
    /\ FusionIdle
    /\ DedupIdle
    /\ CtxIdle
    /\ StoreIdle
    /\ IndexIdle
    /\ RerankIdle
    /\ QueryIdle
    /\ hpc = "input"
    /\ ch_pages \in SeqsUpTo(ChunkPages, MaxPages)
    /\ ch_file_hash \in ChunkFileHashes
    /\ sections = <<>>
    /\ parent_docs = <<>>

\* A direct call of _split_by_headers(full_text, pages).
SplitByHeaders ==
    /\ hpc = "input"
    /\ sections' = split_by_headers(ch_pages)
    /\ hpc' = "split"
    /\ UNCHANGED <<ch_pages, ch_file_hash, parent_docs>>
    /\ UNCHANGED notChunk

\* A call of create_parent_chunks(pages, filename, file_hash).
CreateParentChunks ==
    /\ hpc = "input"
    /\ sections' = split_by_headers(ch_pages)
    /\ parent_docs' = create_parent_chunks(ch_pages, ch_file_hash)
    /\ hpc' = "done"
    /\ UNCHANGED <<ch_pages, ch_file_hash>>
    /\ UNCHANGED notChunk

NextChunk == SplitByHeaders \/ CreateParentChunks

SpecChunk == InitChunk /\ [][NextChunk]_vars

\* C21: no two consecutive parent sections produced by create_parent_chunks
\* have the same section title.
C21_NoAdjacentSameHeader ==
    hpc = "done" =>
        \A i \in 1..(Len(parent_docs) - 1) :
            parent_docs[i].metadata.section_title # parent_docs[i + 1].metadata.section_title

\* The sections whose text, stripped, has at least 100 characters.
LongSections ==
    SelectSeq(sections, LAMBDA sec : Len(Strip(sec.section_text)) >= 100)

\* C22: every parent produced by create_parent_chunks has a text of at least
\* 100 characters; a section with a shorter text is dropped, not merged into a
\* neighbour: the parents are the sections of at least 100 characters, one
\* parent per section, with the section's text, in section order.
C22_ParentMinimumLength ==
    hpc = "done" =>
        /\ \A i \in 1..Len(parent_docs) : Len(parent_docs[i].page_content) >= 100
        /\ \A j \in 1..Len(sections) :
              Len(sections[j].section_text) < 100
                  => \A n \in 1..Len(LongSections) : LongSections[n] # sections[j]
        /\ Len(parent_docs) = Len(LongSections)
        /\ \A i \in 1..Len(parent_docs) :
              parent_docs[i].page_content = LongSections[i].section_text

\* A short section lies between two long ones and only the long ones are kept.
C22_Witness ==
    /\ hpc = "done"
    /\ Len(sections) = 3
    /\ Len(sections[2].section_text) < 100
    /\ Len(parent_docs) = 2
    /\ parent_docs[1].page_content = sections[1].section_text
    /\ parent_docs[2].page_content = sections[3].section_text

(***************************************************************************)
(* MultimodalIngestionPipeline.ingest_pdf: calls one after the other, on   *)
(* the Document Store and the embedding store the calls before left        *)
(***************************************************************************)
MaxIngests == 4

FuelHeader == <<"F", "u", "e", "l", " ", "I", "n", "j", "e", "c", "t", "i", "o", "n">>

\* The files that are ingested: the sha256 digest of each, cut to the
\* characters that matter here, and its pages as extract_text_pages gives them.
\* The first has three sections, the second of them under 100 characters.
IngestFiles ==
    { [file_hash |-> <<"a", "1", "b", "2", "c", "3", "d", "4", "e", "5">>,
       pages |-> << <<NumberedEngineHeader, Body("x", 100)>>,
                    <<BrakeHeader, Body("z", 30)>>,
                    <<FuelHeader, Body("w", 110)>> >>],
      [file_hash |-> <<"f", "6", "0", "7", "1", "8", "2", "9", "3", "a">>,
       pages |-> << <<BrakeHeader, Body("y", 120)>> >>] }

ChildChunkSize == 250         \* RecursiveCharacterTextSplitter(chunk_size=250, ...)

\* create_child_chunks for parents no longer than chunk_size: split_text gives
\* the one chunk of the stripped text, child_idx 0.
create_child_chunks(parents) ==
    [i \in 1..Len(parents) |->
        ChildOf(parents[i],
                [parent_id |-> parents[i].metadata.parent_id, child_idx |-> 0],
                Strip(parents[i].page_content))]

\* ingest_pdf never skipping.
ShouldSkipNever(force, file_hash) == FALSE

\* ingest_pdf, line 26
ShouldSkip(force, file_hash) == ~force /\ IsDocumentIndexed(file_hash)

InitIngest ==
    /\ ConvIdle
    /\ ChunkIdle
    /\ RerankIdle
    /\ QueryIdle
    /\ FusionIdle
    /\ DedupIdle
    /\ CtxIdle
    /\ PersistIdle
    /\ store = EmptyDict
    /\ vector_db = <<>>
    /\ pkl = NoPickle
    /\ rag_system = TRUE
    /\ IndexGlobalsFresh
    /\ ingest_calls = 0
    /\ ingest_result = NoIngest

\* ingest_pdf(pdf_path, force), lines 21-65, with _store_documents, lines
\* 67-81: the parents go to the Document Store one by one, then the children to
\* the embedding store, where add_documents may raise.
IngestPdf ==
    /\ ingest_calls < MaxIngests
    /\ \E f \in IngestFiles, force \in BOOLEAN, add_raises \in BOOLEAN :
          IF ShouldSkip(force, f.file_hash)
          THEN /\ ingest_result' = [file_hash |-> f.file_hash, force |-> force,
                                    status |-> "skipped"]
               /\ UNCHANGED <<store, file, vector_db>>
          ELSE LET new_parents == create_parent_chunks(f.pages, f.file_hash)
                   new_children == create_child_chunks(new_parents)
               IN /\ store' = PutAll(store, new_parents)
                  /\ file' = IF new_parents # <<>>
                             THEN [exists |-> TRUE, content |-> JsonDump(store')]
                             ELSE file
                  /\ IF add_raises /\ new_children # <<>>
                     THEN /\ UNCHANGED vector_db
                          /\ ingest_result' = [file_hash |-> f.file_hash, force |-> force,
                                               status |-> "error"]
                     ELSE /\ vector_db' = vector_db \o new_children
                          /\ ingest_result' = [file_hash |-> f.file_hash, force |-> force,
                                               status |-> "success"]
    /\ ingest_calls' = ingest_calls + 1
    /\ UNCHANGED <<rag_system, bm25_index, bm25_corpus, bm25_doc_map, pkl, rpc, r_documents,
                   r_idx, spc, s_query, s_k, s_index, s_scores, s_results>>
    /\ UNCHANGED <<wpc, data, pre_store>>
    /\ UNCHANGED <<fusionVars, dedupVars, ctxVars, rerankVars, queryVars, chunkVars,
                   convVars>>

NextIngest == IngestPdf

SpecIngest == InitIngest /\ [][NextIngest]_vars

\* The keyword index: what bm25_search reads and what a restart loads.
KeywordIndex == <<bm25_index, bm25_corpus, bm25_doc_map, pkl>>

\* A call of ingest_pdf ended in this step.
IngestReturned == ingest_calls' = ingest_calls + 1

StoredParentsOf(d, file_hash) ==
    {id \in DOMAIN d : d[id].metadata.file_hash = file_hash}

\* The number of sections of a file that are kept as parents.
KeptSections(f) ==
    Len(SelectSeq(split_by_headers(f.pages),
                  LAMBDA sec : Len(Strip(sec.section_text)) >= 100))

\* C28: a call of ingest_pdf that stores the parents of a file stores them
\* under the ids made of the first 8 characters of the file hash and a counter
\* over the kept sections; when parents of the file are stored already (a
\* forced call, or a call after one whose child-store step failed) the call
\* overwrites those entries and the number of stored parents stays the same.
C28_ReingestOverwrites ==
    [][IngestReturned =>
          \A f \in IngestFiles :
              f.file_hash = ingest_result'.file_hash =>
                  /\ ingest_result'.status # "skipped" =>
                        StoredParentsOf(store', f.file_hash)
                            = {[hash8 |-> Take(f.file_hash, 8), counter |-> c] :
                                  c \in 0..(KeptSections(f) - 1)}
                  /\ StoredParentsOf(store, f.file_hash) # {} =>
                        /\ DOMAIN store' = DOMAIN store
                        /\ Cardinality(DOMAIN store') <= Cardinality(DOMAIN store)]_vars

\* The child-store step of the first call failed and the second call, without
\* force, ingested the file: two parents, each child once.
C28_Witness ==
    /\ ingest_calls = 2
    /\ ingest_result.status = "success"
    /\ ~ingest_result.force
    /\ Cardinality(DOMAIN store) = 2
    /\ Len(vector_db) = 2

(***************************************************************************)
(* ConversationStore: the dict of conversations under its lock, called by  *)
(* concurrent threads                                                      *)
(***************************************************************************)
max_messages == 2             \* ConversationStore(max_messages): 50 when not given
MaxConversations == 1         \* most calls of create_conversation
MaxAdds == 3                  \* most calls of add_message

Roles == {"user"}

\* The ids a caller can hand in: those uuid4 gives, drawn or not yet drawn.
ConvIds == 1..MaxConversations

\* messages[-self._max_messages:] keeping the first messages instead.
TrimKeepingFirst(messages) == SubSeq(messages, 1, max_messages)

\* messages[-self._max_messages:]
Trim(messages) == SubSeq(messages, Len(messages) - max_messages + 1, Len(messages))

\* The messages of a conversation.
Messages(conv_id) == conversations[conv_id].messages

\* The number of calls of add_message begun so far.
AddsBegun == now + Cardinality({t \in ConvThreads :
                                    /\ cv_call[t].op = "add_message"
                                    /\ cv_pc[t] \in {"lock", "add_check", "add_append"}})

InitConv ==
    /\ IngestIdle
    /\ ChunkIdle
    /\ RerankIdle
    /\ QueryIdle
    /\ FusionIdle
    /\ DedupIdle
    /\ CtxIdle
    /\ StoreIdle
    /\ IndexIdle
    /\ conversations = EmptyDict
    /\ conv_lock = "free"
    /\ cv_pc = [t \in ConvThreads |-> "idle"]
    /\ cv_call = [t \in ConvThreads |-> NoCall]
    /\ cv_result = [t \in ConvThreads |-> NoResult]
    /\ uuids = 0
    /\ now = 0
    /\ conv_added = EmptyDict

\* create_conversation, line 17: the id is drawn, the thread goes for the lock.
CreateConversationCall(t) ==
    /\ cv_pc[t] = "idle"
    /\ uuids < MaxConversations
    /\ uuids' = uuids + 1
    /\ cv_call' = [cv_call EXCEPT ![t] = [op |-> "create_conversation",
                                          conv_id |-> uuids + 1, role |-> "none"]]
    /\ cv_pc' = [cv_pc EXCEPT ![t] = "lock"]
    /\ UNCHANGED <<conversations, conv_lock, cv_result, now, conv_added>>
    /\ UNCHANGED notConv

\* get_or_create(conv_id), lines 51-54: a known id is returned as it is, read
\* without the lock; otherwise create_conversation is called.
GetOrCreate(t) ==
    /\ cv_pc[t] = "idle"
    /\ \E conv_id \in ConvIds :
          IF conv_id \in DOMAIN conversations
          THEN /\ cv_result' = [cv_result EXCEPT ![t] = [op |-> "get_or_create", returned |-> "id",
                                                         conv_id |-> conv_id]]
               /\ UNCHANGED <<cv_pc, cv_call, uuids>>
          ELSE /\ uuids < MaxConversations
               /\ uuids' = uuids + 1
               /\ cv_call' = [cv_call EXCEPT ![t] = [op |-> "create_conversation",
                                                     conv_id |-> uuids + 1, role |-> "none"]]
               /\ cv_pc' = [cv_pc EXCEPT ![t] = "lock"]
               /\ UNCHANGED cv_result
    /\ UNCHANGED <<conversations, conv_lock, now, conv_added>>
    /\ UNCHANGED notConv

\* A call of add_message, clear_conversation or delete_conversation with an
\* id of the caller's choice.
Call(t) ==
    /\ cv_pc[t] = "idle"
    /\ \E op \in {"add_message", "clear_conversation", "delete_conversation"},
          conv_id \in ConvIds, role \in Roles :
          /\ op = "add_message" => AddsBegun < MaxAdds
          /\ op # "add_message" => role = "user"
          /\ cv_call' = [cv_call EXCEPT ![t] = [op |-> op, conv_id |-> conv_id,
                                                role |-> IF op = "add_message"
                                                         THEN role ELSE "none"]]
    /\ cv_pc' = [cv_pc EXCEPT ![t] = "lock"]
    /\ UNCHANGED <<conversations, conv_lock, cv_result, uuids, now, conv_added>>
    /\ UNCHANGED notConv

\* with self._lock: the thread waits until the lock is free and takes it.
Acquire(t) ==
    /\ cv_pc[t] = "lock"
    /\ conv_lock = "free"
    /\ conv_lock' = t
    /\ cv_pc' = [cv_pc EXCEPT ![t] =
                    IF cv_call[t].op = "add_message" THEN "add_check" ELSE "body"]
    /\ UNCHANGED <<conversations, cv_call, cv_result, uuids, now, conv_added>>
    /\ UNCHANGED notConv

\* create_conversation, lines 19-25, and the release of the lock.
CreateConversation(t) ==
    /\ cv_pc[t] = "body"
    /\ cv_call[t].op = "create_conversation"
    /\ conversations' = Put(conversations, cv_call[t].conv_id,
                            [id |-> cv_call[t].conv_id, messages |-> <<>>])
    /\ conv_added' = Put(conv_added, cv_call[t].conv_id, <<>>)
    /\ cv_result' = [cv_result EXCEPT ![t] = [op |-> cv_call[t].op, returned |-> "id",
                                              conv_id |-> cv_call[t].conv_id]]
    /\ conv_lock' = "free"
    /\ cv_pc' = [cv_pc EXCEPT ![t] = "idle"]
    /\ cv_call' = [cv_call EXCEPT ![t] = NoCall]
    /\ UNCHANGED <<uuids, now>>
    /\ UNCHANGED notConv

\* add_message, lines 29-30: an unknown id returns False.
AddMessageCheck(t) ==
    /\ cv_pc[t] = "add_check"
    /\ IF cv_call[t].conv_id \notin DOMAIN conversations
       THEN /\ cv_result' = [cv_result EXCEPT ![t] = [op |-> cv_call[t].op, returned |-> "False",
                                                      conv_id |-> cv_call[t].conv_id]]
            /\ conv_lock' = "free"
            /\ cv_pc' = [cv_pc EXCEPT ![t] = "idle"]
            /\ cv_call' = [cv_call EXCEPT ![t] = NoCall]
       ELSE /\ cv_pc' = [cv_pc EXCEPT ![t] = "add_append"]
            /\ UNCHANGED <<cv_result, conv_lock, cv_call>>
    /\ UNCHANGED <<conversations, uuids, now, conv_added>>
    /\ UNCHANGED notConv

\* add_message, lines 32-36: the message is appended.
AddMessageAppend(t) ==
    /\ cv_pc[t] = "add_append"
    /\ LET conv_id == cv_call[t].conv_id
           message == [role |-> cv_call[t].role, timestamp |-> now + 1]
       IN /\ conversations' = [conversations EXCEPT
                                  ![conv_id].messages = Append(@, message)]
          /\ conv_added' = [conv_added EXCEPT ![conv_id] = Append(@, message)]
    /\ now' = now + 1
    /\ cv_pc' = [cv_pc EXCEPT ![t] = "add_trim"]
    /\ UNCHANGED <<conv_lock, cv_call, cv_result, uuids>>
    /\ UNCHANGED notConv

\* add_message, lines 39-43: the list is cut to its last max_messages, True is
\* returned and the lock released.
AddMessageTrim(t) ==
    /\ cv_pc[t] = "add_trim"
    /\ LET conv_id == cv_call[t].conv_id
       IN conversations' =
              IF Len(Messages(conv_id)) > max_messages
              THEN [conversations EXCEPT ![conv_id].messages = Trim(@)]
              ELSE conversations
    /\ cv_result' = [cv_result EXCEPT ![t] = [op |-> cv_call[t].op, returned |-> "True",
                                              conv_id |-> cv_call[t].conv_id]]
    /\ conv_lock' = "free"
    /\ cv_pc' = [cv_pc EXCEPT ![t] = "idle"]
    /\ cv_call' = [cv_call EXCEPT ![t] = NoCall]
    /\ UNCHANGED <<uuids, now, conv_added>>
    /\ UNCHANGED notConv

\* clear_conversation, lines 57-61, and the release of the lock.
ClearConversation(t) ==
    /\ cv_pc[t] = "body"
    /\ cv_call[t].op = "clear_conversation"
    /\ LET conv_id == cv_call[t].conv_id
       IN IF conv_id \in DOMAIN conversations
          THEN /\ conversations' = [conversations EXCEPT ![conv_id].messages = <<>>]
               /\ conv_added' = [conv_added EXCEPT ![conv_id] = <<>>]
               /\ cv_result' = [cv_result EXCEPT ![t] = [op |-> cv_call[t].op, returned |-> "True",
                                                         conv_id |-> conv_id]]
          ELSE /\ cv_result' = [cv_result EXCEPT ![t] = [op |-> cv_call[t].op, returned |-> "False",
                                                         conv_id |-> conv_id]]
               /\ UNCHANGED <<conversations, conv_added>>
    /\ conv_lock' = "free"
    /\ cv_pc' = [cv_pc EXCEPT ![t] = "idle"]
    /\ cv_call' = [cv_call EXCEPT ![t] = NoCall]
    /\ UNCHANGED <<uuids, now>>
    /\ UNCHANGED notConv

\* delete_conversation, lines 64-68, and the release of the lock.
DeleteConversation(t) ==
    /\ cv_pc[t] = "body"
    /\ cv_call[t].op = "delete_conversation"
    /\ LET conv_id == cv_call[t].conv_id
       IN IF conv_id \in DOMAIN conversations
          THEN /\ conversations' = Restrict(conversations, DOMAIN conversations \ {conv_id})
               /\ conv_added' = Restrict(conv_added, DOMAIN conv_added \ {conv_id})
               /\ cv_result' = [cv_result EXCEPT ![t] = [op |-> cv_call[t].op, returned |-> "True",
                                                         conv_id |-> conv_id]]
          ELSE /\ cv_result' = [cv_result EXCEPT ![t] = [op |-> cv_call[t].op, returned |-> "False",
                                                         conv_id |-> conv_id]]
               /\ UNCHANGED <<conversations, conv_added>>
    /\ conv_lock' = "free"
    /\ cv_pc' = [cv_pc EXCEPT ![t] = "idle"]
    /\ cv_call' = [cv_call EXCEPT ![t] = NoCall]
    /\ UNCHANGED <<uuids, now>>
    /\ UNCHANGED notConv

NextConv ==
    \E t \in ConvThreads :
        \/ CreateConversationCall(t)
        \/ GetOrCreate(t)
        \/ Call(t)
        \/ Acquire(t)
        \/ CreateConversation(t)
        \/ AddMessageCheck(t)
        \/ AddMessageAppend(t)
        \/ AddMessageTrim(t)
        \/ ClearConversation(t)
        \/ DeleteConversation(t)

SpecConv == InitConv /\ [][NextConv]_vars

\* The last n items of a list, all of it when it has fewer.
LastOf(l, n) == IF Len(l) <= n THEN l ELSE SubSeq(l, Len(l) - n + 1, Len(l))

\* The thread is at the test of add_message and leaves it in this step.
AddMessageDecides(t) == cv_pc[t] = "add_check" /\ cv_pc'[t] # "add_check"

\* C30: whatever the threads do, every conversation a caller can read (the
\* lock is free) holds at most max_messages messages, the most recently added
\* ones in insertion order; add_message for an id the store does not hold
\* returns False and changes no conversation.
C30_HistoryBounded ==
    /\ [](conv_lock = "free" =>
            \A conv_id \in DOMAIN conversations :
                /\ Len(Messages(conv_id)) <= max_messages
                /\ Messages(conv_id) = LastOf(conv_added[conv_id], max_messages))
    /\ [][\A t \in ConvThreads :
             (AddMessageDecides(t) /\ cv_call[t].conv_id \notin DOMAIN conversations)
                 => /\ cv_result'[t].returned = "False"
                    /\ cv_pc'[t] = "idle"
                    /\ conversations' = conversations]_vars

\* More messages were added to a conversation than it keeps, and a call of
\* add_message for an id the store did not hold has returned False.
C30_Witness ==
    /\ conv_lock = "free"
    /\ \E conv_id \in DOMAIN conversations :
          /\ Len(conv_added[conv_id]) > max_messages
          /\ Len(Messages(conv_id)) = max_messages
    /\ \E t \in ConvThreads :
          /\ cv_pc[t] = "idle"
          /\ cv_result[t].op = "add_message"
          /\ cv_result[t].returned = "False"

====
